---- MODULE Spec2Model ----
(***************************************************************************)
(* RadiaCode client driver: the BLE frame reassembler and transport        *)
(* (BluetoothTransport.cpp), the command channel (RadiaCode::execute) and  *)
(* the byte cursor (BytesBuffer.cpp).                                      *)
(*                                                                         *)
(* Bytes are naturals 0..255.  C arrays are sequences; the C index i is    *)
(* the sequence index i + 1.  32-bit quantities that can wrap are kept as  *)
(* two 16-bit halves.                                                      *)
(***************************************************************************)
EXTENDS Integers, Sequences, FiniteSets, TLC

(***************************************************************************)
(* Bounds of the model.                                                    *)
(***************************************************************************)
\* A spectrum has 1024 channels in the source, of which Spectrum::clear
\* zeroes the first 16; the model scales both.
ScaledChannels == 4
ScaledCleared == 2
\* Spectrum objects followed in the hands of the caller.
MaxSpectra == 3
\* Both fixed buffers hold 4096 bytes in the source; the model scales them.
ScaledCapacity == 10
\* The BytesBuffer constructors zero the first 16 of the 4096 bytes; the
\* model scales that prefix with the buffer, keeping it shorter than it.
ScaledZeroed == 8
\* Exchanges (RadiaCode::execute calls) followed through the transport.
MaxExchanges == 2
\* Frames followed in the sequence-number specification.
MaxFrames == 40
\* The wait loop sleeps delay(50) per iteration; the model samples the
\* clock once every PollMs milliseconds of it.
PollMs == 15000
\* Largest value handed to the size-taking BytesBuffer operations is
\* MAX_BUFFER_SIZE + MaxOver.
MaxOver == 1
\* A new exchange starts with at most MaxStale bytes of the previous reply
\* still queued in the device.
MaxStale == 4
\* Writes into the shared store followed in the cursor specification.
MaxWrites == 1

(***************************************************************************)
(* Program constants.                                                      *)
(***************************************************************************)
MAX_RESP_SIZE == ScaledCapacity
MAX_CHANNELS == ScaledChannels
CLEARED_COUNTS == ScaledCleared
MAX_BUFFER_SIZE == ScaledCapacity
TIMEOUT_MS == 30000
chunkSize == 18
SEQ_BIAS == 128
SEQ_MODULUS == 32
ZERO_PREFIX == ScaledZeroed
GET_STATUS == 5
RD_VIRT_SFR_BATCH == 2090
CHN_TO_keV_A0 == 32784
CHN_TO_keV_A1 == 32785
CHN_TO_keV_A2 == 32786

Byte == 0..255

Min(a, b) == IF a < b THEN a ELSE b

(***************************************************************************)
(* memset / memcpy on a sequence: off is the C offset of the first byte.   *)
(***************************************************************************)
Memset0(buf, n) == [i \in 1..Len(buf) |-> IF i <= n THEN 0 ELSE buf[i]]

Memcpy(buf, off, data, n) ==
    [i \in 1..Len(buf) |-> IF off < i /\ i <= off + n THEN data[i - off] ELSE buf[i]]

Zeros(n) == [i \in 1..n |-> 0]

\* Little-endian encoding of a value below 2^16 in four bytes.
LE32(n) == <<n % 256, (n \div 256) % 256, 0, 0>>

(***************************************************************************)
(* State.                                                                  *)
(***************************************************************************)
VARIABLES
    connection,       \* "none": _connection == nullptr; "down": transport
                      \* object with _peripheral == nullptr; "up": connected
    _seq,             \* RadiaCode::_seq
    req_header,       \* RadiaCode::execute: req_header[4] of the current call
    request,          \* full_request handed to the transport
    pos,              \* BluetoothTransport::execute: index of the send loop
    rc_pc,            \* "idle" | "transport": where RadiaCode::execute stands
    bt_pc,            \* "idle" | "send" | "wait" | "check"
    elapsedTime,      \* millis() - startTime as the wait loop sees it
    _resp_buffer,     \* BluetoothTransport::_resp_buffer, its bytes below
                      \* _resp_received
    _resp_received,
    _resp_size,
    _response_ready,
    _shared_buffer,   \* BytesBuffer::_shared_buffer
    response,         \* the cursor RadiaCode::execute returned last
    sent,             \* bytes written to the write characteristic this exchange
    wire,             \* reply bytes the device has queued, not yet notified,
                      \* each tagged with the exchange it answers
    reply,            \* the reply the device chose for the current exchange
    origin,           \* for each byte of _resp_buffer the exchange it came from
    delivered,        \* bytes handed to the callback since the last reset
    xchg,             \* exchanges started on this session
    ret,              \* how the last RadiaCode::execute call ended
    frames,           \* frames RadiaCode::execute has handed to the transport
    buf,              \* the BytesBuffer under test (cursor specification)
    out,              \* what the last BytesBuffer operation returned
    nwrites,          \* writes made through buf
    rt,               \* the write-and-read-back scenario: where it stands and
                      \* what it wrote
    cmd,              \* the last command wrapper called: its arguments, the
                      \* response it was handed and what it returned
    dec,              \* the decoder at work: its input, its cursor, its locals
                      \* and what it has produced
    shared_counts,    \* Spectrum::shared_counts, the one array behind every
                      \* Spectrum object's counts pointer
    spectra           \* the function-local statics constructed so far and the
                      \* Spectrum objects handed to the caller

vars == <<connection, _seq, req_header, request, pos, rc_pc, bt_pc, elapsedTime,
          _resp_buffer, _resp_received, _resp_size, _response_ready,
          _shared_buffer, response, sent, wire, reply, origin, delivered,
          xchg, ret, frames, buf, out, nwrites, rt, cmd, dec, shared_counts, spectra>>

\* Everything but the BytesBuffer under test and the store behind it.
sessionVars == <<connection, _seq, req_header, request, pos, rc_pc, bt_pc,
                 elapsedTime, _resp_buffer, _resp_received, _resp_size,
                 _response_ready, response, sent, wire, reply, origin, delivered,
                 xchg, ret, frames, cmd, dec, shared_counts, spectra>>

\* What a BytesBuffer operation handed back: ok its boolean, count its byte
\* count, value its output (a 32-bit pattern as two 16-bit halves for the
\* typed reads, a byte sequence for readBytes and peekBytes); kind and n are
\* the call's type and width or length, pos0 the position it started from.
Out(op, kind, ok, n, count, pos0, value) ==
    [op |-> op, kind |-> kind, ok |-> ok, n |-> n, count |-> count, pos0 |-> pos0,
     value |-> value]

NoOut == Out("none", "none", TRUE, 0, 0, 0, <<>>)
NoRt == [pc |-> "new", t |-> [kind |-> "none", w |-> 0], v |-> 0, position |-> 0,
         ok |-> FALSE]
NoCmd == [op |-> "none"]
NoDec == [pc |-> "idle"]
NoReply == [prefix |-> <<>>, body |-> <<>>]
NoRet == [path |-> "none", origins |-> {}, received |-> 0, size |-> 0, delivered |-> 0]

(***************************************************************************)
(* BytesBuffer: a cursor is [size, position, capacity]; every cursor's     *)
(* _fixed_data points at the one static _shared_buffer.                    *)
(***************************************************************************)
\* BytesBuffer::BytesBuffer(void): the cursor.
EmptyCursor == [size |-> 0, position |-> 0, capacity |-> MAX_BUFFER_SIZE]

\* BytesBuffer::BytesBuffer(void): memset(_fixed_data, 0, 16).
ClearPrefix(shared) == Memset0(shared, Min(ZERO_PREFIX, Len(shared)))

\* BytesBuffer::BytesBuffer(data, length): the size it takes.
CtorSize(length) == IF length > MAX_BUFFER_SIZE THEN MAX_BUFFER_SIZE ELSE length

\* BytesBuffer::BytesBuffer(data, length): the cursor.
CursorOf(length) == [size |-> CtorSize(length), position |-> 0, capacity |-> MAX_BUFFER_SIZE]

\* BytesBuffer::BytesBuffer(data, length): the shared buffer afterwards.
CtorCopy(shared, data, length) ==
    IF length = 0 THEN ClearPrefix(shared)
    ELSE Memcpy(ClearPrefix(shared), 0, data, CtorSize(length))

\* readBytes without the clamp to the bytes available.
BytesToRead_Unclamped(c, length) == length

\* BytesBuffer::readBytes: the number of bytes read, min(length, _size -
\* _position) in size_t arithmetic.
BytesToRead(c, length) ==
    IF c.position > c.size THEN length ELSE Min(length, c.size - c.position)

\* The bytes a cursor covers, [0, size) of the shared buffer.
CursorBytes(c, shared) == SubSeq(shared, 1, Min(c.size, Len(shared)))

(***************************************************************************)
(* BluetoothTransport: the notification callback (the frame reassembler).  *)
(***************************************************************************)
\* Low and high 16 bits of size_value + 4 in uint32_t arithmetic.
SizePlus4Lo(data) == (data[1] + data[2] * 256 + 4) % 65536
SizePlus4Hi(data) ==
    (data[3] + data[4] * 256 + ((data[1] + data[2] * 256 + 4) \div 65536)) % 65536

\* _resp_size = size_value + 4, limited to MAX_RESP_SIZE.
DeclaredSize(data) ==
    IF SizePlus4Hi(data) > 0 \/ SizePlus4Lo(data) > MAX_RESP_SIZE
    THEN MAX_RESP_SIZE
    ELSE SizePlus4Lo(data)

\* The callback's first branch: (_resp_size == 0) && (length >= 4).
IsFirstPacket(size, length) == size = 0 /\ length >= 4

\* The callback's append guard: (_resp_received + length) <= MAX_RESP_SIZE.
AppendFits(received, length) == received + length <= MAX_RESP_SIZE

\* copyLength of the append branch.
CopyLength(received, length) ==
    IF received + length > MAX_RESP_SIZE THEN MAX_RESP_SIZE - received ELSE length

\* The bytes of _resp_buffer below _resp_received: the only ones the code
\* reads.  What lies above them (zeros or older bytes) is not kept.
Readable(buffer, received) == SubSeq(buffer, 1, received)

\* A callback that appends whatever arrives.
StoreChunk_Unguarded(buffer, received, size, data) ==
    IF IsFirstPacket(size, Len(data)) THEN data
    ELSE Readable(buffer, received) \o data

\* The readable bytes after the callback has stored a chunk: the first packet
\* is copied to the start of the zeroed buffer, a later one is appended.
StoreChunk(buffer, received, size, data) ==
    IF IsFirstPacket(size, Len(data))
    THEN data
    ELSE IF AppendFits(received, Len(data)) /\ CopyLength(received, Len(data)) > 0
         THEN Readable(buffer, received) \o SubSeq(data, 1, CopyLength(received, Len(data)))
         ELSE buffer

\* _resp_received after the callback has stored a chunk.
ReceivedAfter(received, size, length) ==
    IF IsFirstPacket(size, length) THEN length
    ELSE IF AppendFits(received, length) THEN received + CopyLength(received, length)
         ELSE received

\* _resp_size after the callback.
SizeAfter(size, data) ==
    IF IsFirstPacket(size, Len(data)) THEN DeclaredSize(data) ELSE size

\* The completion test: _resp_received >= _resp_size.
AllReceived(received, size) == received >= size

\* The longest chunk one notification may carry: never more than the
\* reassembly buffer holds.
RunLength(w) == Min(Len(w), MAX_RESP_SIZE)

BytesOf(chunk) == [i \in 1..Len(chunk) |-> chunk[i].b]
TagsOf(chunk) == [i \in 1..Len(chunk) |-> chunk[i].x]
Tagged(bytes, x) == [i \in 1..Len(bytes) |-> [b |-> bytes[i], x |-> x]]

\* registerForNotify callback: one notification of n bytes.
Notify(n) ==
    /\ connection = "up"
    /\ n \in 1..RunLength(wire)
    /\ LET chunk == SubSeq(wire, 1, n)
           data == BytesOf(chunk)
           received == ReceivedAfter(_resp_received, _resp_size, n)
           size == SizeAfter(_resp_size, data)
       IN /\ _resp_buffer' = StoreChunk(_resp_buffer, _resp_received, _resp_size, data)
          /\ origin' = StoreChunk(origin, _resp_received, _resp_size, TagsOf(chunk))
          /\ _resp_received' = received
          /\ _resp_size' = size
          /\ _response_ready' = (_response_ready \/ AllReceived(received, size))
    /\ wire' = SubSeq(wire, n + 1, Len(wire))
    /\ delivered' = delivered + n
    /\ UNCHANGED <<connection, _seq, req_header, request, pos, rc_pc, bt_pc,
                   elapsedTime, _shared_buffer, response, sent, reply, xchg, ret,
                   frames, buf, out, nwrites, rt, cmd, dec, shared_counts, spectra>>

(***************************************************************************)
(* RadiaCode::execute: building the request.                               *)
(***************************************************************************)
\* req_seq_no = 0x80 + _seq, a uint8_t.
ReqSeqNo(s) == (SEQ_BIAS + s) % 256

\* NextSeq without the reduction to five bits.
NextSeq_NoWrap(s) == (s + 1) % 256

\* _seq = (_seq + 1) % 32.
NextSeq(s) == (s + 1) % SEQ_MODULUS

\* req_header: {opcode low byte, opcode high byte, 0, sequence}.
ReqHeader(op, s) == <<op % 256, (op \div 256) % 256, 0, ReqSeqNo(s)>>

\* full_request with a length that counts the length field as well.
FullRequest_CountsPrefix(op, s, args) ==
    LE32(8 + Len(args)) \o ReqHeader(op, s) \o args

\* full_request: the 4-byte length of header + args, the header, the args.
FullRequest(op, s, args) == LE32(4 + Len(args)) \o ReqHeader(op, s) \o args

\* The call followed through the transport: a batch read of the three
\* calibration registers, a request of two transport chunks.
Requests ==
    { [op |-> RD_VIRT_SFR_BATCH,
       args |-> LE32(3) \o LE32(CHN_TO_keV_A0) \o LE32(CHN_TO_keV_A1) \o LE32(CHN_TO_keV_A2)] }

(***************************************************************************)
(* The device: what it may answer to a request with header h.              *)
(***************************************************************************)
Payload(k) == [i \in 1..k |-> 160 + i]

\* A reply as the protocol defines it: the prefix counts the bytes after it,
\* and the body starts with the echoed header.
GoodReply(h, k) == [prefix |-> LE32(4 + k), body |-> h \o Payload(k)]

Replies(h) ==
    \* well-formed: the header alone, a frame that fills the reassembly buffer
    \* exactly, and one that is a byte too long for it
    { GoodReply(h, k) : k \in {0, MAX_RESP_SIZE - 8, MAX_RESP_SIZE - 7} }
    \cup
    { \* the header of another exchange: the next sequence number
      [prefix |-> LE32(4), body |-> <<h[1], h[2], 0, ReqSeqNo(NextSeq(h[4] - SEQ_BIAS))>>],
      \* more bytes than the prefix declares
      [prefix |-> LE32(4), body |-> h \o Payload(2)],
      \* fewer bytes than the prefix declares
      [prefix |-> LE32(6), body |-> h],
      \* a frame shorter than a header
      [prefix |-> LE32(2), body |-> <<h[1], h[2]>>],
      \* a prefix that wraps: 0xFFFFFFFC + 4 = 0 in 32 bits
      [prefix |-> <<252, 255, 255, 255>>, body |-> h] }

\* The reply's prefix counts exactly the bytes of its body.
WellFormed(r) == r.prefix = LE32(Len(r.body))

\* The device answers a request it has received in full, once, and queues
\* the answer when the notifications of its previous answer have gone out.
DeviceReply ==
    /\ connection = "up"
    /\ rc_pc = "transport"
    /\ sent = request
    /\ reply = NoReply
    /\ wire = <<>>
    /\ \E r \in Replies(req_header) :
          /\ reply' = r
          /\ wire' = wire \o Tagged(r.prefix \o r.body, xchg)
    /\ UNCHANGED <<connection, _seq, req_header, request, pos, rc_pc, bt_pc,
                   elapsedTime, _resp_buffer, _resp_received, _resp_size,
                   _response_ready, _shared_buffer, response, sent, origin,
                   delivered, xchg, ret, frames, buf, out, nwrites, rt, cmd, dec, shared_counts, spectra>>

(***************************************************************************)
(* One exchange: RadiaCode::execute calling BluetoothTransport::execute.   *)
(***************************************************************************)
\* The wait loop's condition: !_response_ready && elapsedTime < TIMEOUT_MS.
LoopContinues(ready, elapsed) == ~ready /\ elapsed < TIMEOUT_MS

\* dataSize in BluetoothTransport::execute.
DataSize(received) ==
    LET d == received - 4
        d1 == IF d > MAX_RESP_SIZE - 4 THEN MAX_RESP_SIZE - 4 ELSE d
    IN IF d1 > MAX_BUFFER_SIZE THEN MAX_BUFFER_SIZE ELSE d1

\* ReturnedLength without the timeout return.
ReturnedLength_NoReadyCheck(ready, received) ==
    IF received >= 4 THEN DataSize(received) ELSE 0

\* The length of the cursor BluetoothTransport::execute returns.
ReturnedLength(ready, received) ==
    IF ~ready THEN 0
    ELSE IF received >= 4 THEN DataSize(received) ELSE 0

\* The cursor after RadiaCode::execute has read resp_header from it.
AfterHeader(c) == [c EXCEPT !.position = c.position + BytesToRead(c, 4)]

\* RadiaCode::execute up to the call into the transport, and the transport's
\* entry: the connection checks and the reset of the response tracking.
Execute(req) ==
    /\ rc_pc = "idle"
    /\ xchg < MaxExchanges
    /\ Len(wire) <= MaxStale
    /\ xchg' = xchg + 1
    /\ sent' = <<>>
    /\ reply' = NoReply
    /\ _shared_buffer' = ClearPrefix(_shared_buffer)
    /\ response' = EmptyCursor
    /\ IF connection = "none"
       THEN /\ ret' = [NoRet EXCEPT !.path = "nolink"]
            /\ UNCHANGED <<_seq, req_header, request, frames, pos, rc_pc, bt_pc,
                           _resp_buffer, origin, _resp_received, _resp_size,
                           _response_ready, delivered>>
       ELSE /\ req_header' = ReqHeader(req.op, _seq)
            /\ _seq' = NextSeq(_seq)
            /\ request' = FullRequest(req.op, _seq, req.args)
            /\ frames' = frames + 1
            /\ IF connection = "down"
               THEN /\ ret' = [NoRet EXCEPT !.path = "noconn"]
                    /\ UNCHANGED <<pos, rc_pc, bt_pc, _resp_buffer, origin,
                                   _resp_received, _resp_size, _response_ready,
                                   delivered>>
               ELSE /\ _resp_received' = 0
                    /\ _resp_buffer' = Readable(_resp_buffer, 0)
                    /\ origin' = Readable(origin, 0)
                    /\ _resp_size' = 0
                    /\ _response_ready' = FALSE
                    /\ delivered' = 0
                    /\ pos' = 0
                    /\ rc_pc' = "transport"
                    /\ bt_pc' = "send"
                    /\ ret' = NoRet
    /\ UNCHANGED <<connection, elapsedTime, wire, buf, out, nwrites, rt, cmd, dec, shared_counts, spectra>>

\* One iteration of the send loop: writeValue(chunk, toSend).
SendChunk ==
    /\ bt_pc = "send"
    /\ LET remaining == Len(request) - pos
           toSend == IF remaining > chunkSize THEN chunkSize ELSE remaining
       IN sent' = sent \o SubSeq(request, pos + 1, pos + toSend)
    /\ pos' = pos + chunkSize
    /\ IF pos + chunkSize < Len(request)
       THEN UNCHANGED <<bt_pc, elapsedTime>>
       ELSE bt_pc' = "wait" /\ elapsedTime' = 0
    /\ UNCHANGED <<connection, _seq, req_header, request, rc_pc, _resp_buffer,
                   _resp_received, _resp_size, _response_ready, _shared_buffer,
                   response, wire, reply, origin, delivered, xchg, ret, frames, buf, out, nwrites, rt, cmd, dec, shared_counts, spectra>>

\* AfterDelay with a clock that does not advance.
AfterDelay_ClockStuck(elapsed) == elapsed

\* millis() - startTime after the loop body's delay(50) and yield().
AfterDelay(elapsed) == elapsed + PollMs

\* One evaluation of the wait loop's condition, and the delay if it holds.
Poll ==
    /\ bt_pc = "wait"
    /\ IF LoopContinues(_response_ready, elapsedTime)
       THEN elapsedTime' = AfterDelay(elapsedTime) /\ UNCHANGED bt_pc
       ELSE bt_pc' = "check" /\ UNCHANGED elapsedTime
    /\ UNCHANGED <<connection, _seq, req_header, request, pos, rc_pc, _resp_buffer,
                   _resp_received, _resp_size, _response_ready, _shared_buffer,
                   response, sent, wire, reply, origin, delivered, xchg, ret,
                   frames, buf, out, nwrites, rt, cmd, dec, shared_counts, spectra>>

\* After the loop: the timeout return or the cursor over _resp_buffer + 4,
\* then RadiaCode::execute reads the four header bytes and returns.
Finish ==
    /\ bt_pc = "check"
    /\ LET n == ReturnedLength(_response_ready, _resp_received)
       IN /\ response' = AfterHeader(CursorOf(n))
          /\ _shared_buffer' =
                IF _response_ready /\ _resp_received >= 4
                THEN CtorCopy(_shared_buffer, SubSeq(_resp_buffer, 5, 4 + n), n)
                ELSE _shared_buffer
          /\ ret' = [path |-> IF _response_ready THEN "ready" ELSE "timeout",
                     origins |-> {origin[i] : i \in 1..Len(origin)},
                     received |-> _resp_received,
                     size |-> _resp_size,
                     delivered |-> delivered]
    /\ bt_pc' = "idle"
    /\ rc_pc' = "idle"
    /\ elapsedTime' = 0
    /\ pos' = 0
    /\ UNCHANGED <<connection, _seq, req_header, request, _resp_buffer,
                   _resp_received, _resp_size, _response_ready, sent, wire, reply,
                   origin, delivered, xchg, frames, buf, out, nwrites, rt, cmd, dec, shared_counts, spectra>>

Init ==
    /\ connection \in {"none", "down", "up"}
    /\ _seq = 0
    /\ req_header = Zeros(4)
    /\ request = <<>>
    /\ pos = 0
    /\ rc_pc = "idle"
    /\ bt_pc = "idle"
    /\ elapsedTime = 0
    /\ _resp_buffer = <<>>
    /\ _resp_received = 0
    /\ _resp_size = 0
    /\ _response_ready = FALSE
    /\ _shared_buffer = Zeros(MAX_BUFFER_SIZE)
    /\ response = EmptyCursor
    /\ sent = <<>>
    /\ wire = <<>>
    /\ reply = NoReply
    /\ origin = <<>>
    /\ delivered = 0
    /\ xchg = 0
    /\ ret = NoRet
    /\ frames = 0
    /\ buf = EmptyCursor
    /\ out = NoOut
    /\ nwrites = 0
    /\ rt = NoRt
    /\ cmd = NoCmd
    /\ dec = NoDec
    /\ shared_counts = [i \in 1..MAX_CHANNELS |-> [lo |-> 0, hi |-> 0]]
    /\ spectra = [statics |-> {}, held |-> <<>>]

Next ==
    \/ \E req \in Requests : Execute(req)
    \/ SendChunk
    \/ DeviceReply
    \/ \E n \in 1..MAX_RESP_SIZE : Notify(n)
    \/ Poll
    \/ Finish

Spec == Init /\ [][Next]_vars

\* The wait loop and the steps around it belong to one sequential control
\* path that keeps running; the device and the radio owe nothing.
SpecLive == Spec /\ WF_vars(SendChunk) /\ WF_vars(Poll) /\ WF_vars(Finish)

(***************************************************************************)
(* Claims about the reassembler and the transport (specification Spec).    *)
(***************************************************************************)
\* The last call went through the transport and has returned.
Returned == rc_pc = "idle" /\ ret.path \in {"ready", "timeout"}

\* The bytes of the cursor RadiaCode::execute returned.
ResponseBytes == CursorBytes(response, _shared_buffer)

\* The length a reply's prefix declares, when it is below 2^16.
Declared(r) == r.prefix[1] + r.prefix[2] * 256
SmallPrefix(r) == r.prefix[3] = 0 /\ r.prefix[4] = 0

\* A well-formed reply that fits the reassembly buffer.
FittingFrame(r) ==
    /\ r # NoReply
    /\ WellFormed(r)
    /\ 4 + Len(r.body) <= MAX_RESP_SIZE

\* C1: whatever the chunking, once the device has delivered the whole of a
\* well-formed frame and execute returns without a timeout, the response is
\* the frame's body.
Cex_C1_ChunkingIndependent ==
    (/\ Returned
     /\ ret.path = "ready"
     /\ xchg = 1
     /\ FittingFrame(reply)
     /\ ret.delivered = 4 + Len(reply.body))
    => ResponseBytes = reply.body

\* C2: the response never holds more bytes than the prefix of the first chunk
\* declared.
Cex_C2_ExcessTruncated ==
    (/\ Returned
     /\ ret.path = "ready"
     /\ xchg = 1
     /\ reply # NoReply
     /\ SmallPrefix(reply)
     /\ ret.size = 4 + Declared(reply))
    => response.size <= Declared(reply)

\* C3: a non-empty response means every byte of the announced frame was
\* received, and fewer than 4 bytes never set the response-ready flag.
Cex_C3_WholeFrameOnly ==
    /\ (/\ Returned
        /\ xchg = 1
        /\ FittingFrame(reply)
        /\ response.size > 0)
       => ret.received >= 4 + Declared(reply)
    /\ (xchg = 1 /\ _response_ready) => _resp_received >= 4

\* C4: every byte the reassembler held when a response was completed belongs
\* to the reply of the exchange that returns it (stated for the responses
\* whose first chunk was long enough to carry a length prefix).
Cex_C4_NoLeak ==
    (Returned /\ ret.path = "ready" /\ ret.size > 0) => ret.origins \subseteq {xchg}

\* C5: a response that is shorter than a header, or whose header is not the
\* request's, reaches the caller as an empty cursor only.
Cex_C5_HeaderValidated ==
    (/\ Returned
     /\ xchg = 1
     /\ \/ Len(ResponseBytes) < 4
        \/ SubSeq(ResponseBytes, 1, 4) # req_header)
    => response.size = 0

\* C8: an empty cursor comes back when there is no connection (and nothing is
\* sent; without a transport the sequence counter stays put as well), on a
\* timeout, and when the response counts as ready with less than a length
\* prefix stored.
Thm_C8_EmptyOnFailure ==
    rc_pc = "idle" =>
        /\ ret.path = "nolink" => (response.size = 0 /\ sent = <<>> /\ _seq = 0)
        /\ ret.path = "noconn" => (response.size = 0 /\ sent = <<>>)
        /\ ret.path = "timeout" => response.size = 0
        /\ (ret.path = "ready" /\ ret.received < 4) => response.size = 0

\* A timeout that found part of a frame stored.
Wit_C8_TimeoutWithPartialFrame ==
    Returned /\ ret.path = "timeout" /\ ret.received >= 4

\* C9: a first chunk that declares more than the buffer holds (and is stored
\* with its prefix at the start of the buffer) makes the frame ready with
\* exactly MAX_RESP_SIZE bytes stored once the device has delivered that many.
Cex_C9_ClampedFrameCompletes ==
    (/\ xchg = 1
     /\ rc_pc = "transport"
     /\ reply # NoReply
     /\ SmallPrefix(reply)
     /\ 4 + Declared(reply) > MAX_RESP_SIZE
     /\ _resp_size = MAX_RESP_SIZE
     /\ _resp_received >= 4
     /\ SubSeq(_resp_buffer, 1, 4) = reply.prefix
     /\ delivered >= MAX_RESP_SIZE)
    => (_response_ready /\ _resp_received = MAX_RESP_SIZE)

(***************************************************************************)
(* Termination (specification SpecLive).                                   *)
(***************************************************************************)
\* C7: BluetoothTransport::execute, once entered, returns.
Thm_C7_ExchangeTerminates == (bt_pc # "idle") ~> (bt_pc = "idle")

\* An exchange that returned by timeout without a single chunk arriving.
Wit_C7_TimedOutSilent ==
    Returned /\ ret.path = "timeout" /\ ret.delivered = 0 /\ reply = NoReply

(***************************************************************************)
(* The command channel alone (specification SpecSeq): RadiaCode::execute   *)
(* as one step, the transport's answer being an input.                     *)
(***************************************************************************)
SeqRequests == Requests \cup {[op |-> GET_STATUS, args |-> <<>>]}

\* What RadiaCodeTransport::execute may hand back for a request with header h:
\* nothing, the echoed header alone or with a payload byte, another header.
TransportOutcomes(h) ==
    IF connection = "down" THEN {<<>>}
    ELSE {<<>>, h, h \o Payload(1), <<h[1], h[2], 0, ReqSeqNo(NextSeq(h[4] - SEQ_BIAS))>>}

SeqExecute(req) ==
    /\ xchg < MaxFrames
    /\ xchg' = xchg + 1
    /\ IF connection = "none"
       THEN /\ response' = EmptyCursor
            /\ _shared_buffer' = ClearPrefix(_shared_buffer)
            /\ ret' = [NoRet EXCEPT !.path = "nolink"]
            /\ UNCHANGED <<_seq, req_header, request, frames>>
       ELSE /\ req_header' = ReqHeader(req.op, _seq)
            /\ _seq' = NextSeq(_seq)
            /\ request' = FullRequest(req.op, _seq, req.args)
            /\ frames' = frames + 1
            /\ \E resp \in TransportOutcomes(ReqHeader(req.op, _seq)) :
                  /\ response' = AfterHeader(CursorOf(Len(resp)))
                  /\ _shared_buffer' = CtorCopy(_shared_buffer, resp, Len(resp))
                  /\ ret' = [NoRet EXCEPT !.path = IF resp = <<>> THEN "empty" ELSE "ready",
                                          !.received = Len(resp)]
    /\ UNCHANGED <<connection, pos, rc_pc, bt_pc, elapsedTime, _resp_buffer,
                   _resp_received, _resp_size, _response_ready, sent, wire, reply,
                   origin, delivered, buf, out, nwrites, rt, cmd, dec, shared_counts, spectra>>

NextSeqSpec == \E req \in SeqRequests : SeqExecute(req)

SpecSeq == Init /\ [][NextSeqSpec]_vars

\* C6: the frame handed to the transport by the k-th sending call carries the
\* sequence byte 0x80 + (k mod 32), whatever the earlier calls got back.
Thm_C6_SequenceCycle ==
    frames > 0 =>
        /\ request[8] = 128 + ((frames - 1) % 32)
        /\ request[8] \in 128..159

\* The 34th frame, sent after an exchange that came back empty: the counter
\* has wrapped and stands at 0x81.
Wit_C6_Wrapped == frames = 34 /\ request[8] = 129 /\ ret.path = "empty"

(***************************************************************************)
(* One BytesBuffer driven through its public operations (specification     *)
(* SpecBuf).  out records what the last operation handed back.             *)
(***************************************************************************)
\* Arguments handed to the operations that take a length, size or position.
Lengths == {0, 2, MAX_BUFFER_SIZE - 1} \cup (MAX_BUFFER_SIZE..(MAX_BUFFER_SIZE + MaxOver))

\* Widths of the typed reads and writes: sizeof(uint8_t / uint16_t / uint32_t).
Widths == {1, 2, 4}

\* What a load from beyond the end of _shared_buffer may produce.
Junk == {0, 255}

\* The byte sequences n loads from _fixed_data + p can produce.
ReadAt(shared, p, n) ==
    LET room == IF p < Len(shared) THEN Len(shared) - p ELSE 0
        inside == Min(n, room)
    IN {SubSeq(shared, p + 1, p + inside) \o t : t \in [1..(n - inside) -> Junk]}

\* The cursor after n bytes were stored at its position.
Advanced(c, n) ==
    [c EXCEPT !.position = c.position + n,
              !.size = IF c.position + n > c.size THEN c.position + n ELSE c.size]

BufCtor ==
    /\ buf' = EmptyCursor
    /\ _shared_buffer' = ClearPrefix(_shared_buffer)
    /\ out' = [NoOut EXCEPT !.op = "ctor"]
    /\ UNCHANGED nwrites
    /\ UNCHANGED sessionVars

BufCtorData(length) ==
    /\ buf' = CursorOf(length)
    /\ _shared_buffer' = CtorCopy(_shared_buffer, Payload(length), length)
    /\ out' = [NoOut EXCEPT !.op = "ctorData", !.n = length]
    /\ UNCHANGED nwrites
    /\ UNCHANGED sessionVars

\* The typed reads: readUint8/16/32, readInt8/16/32, readFloat.
TypedReads ==
    {[kind |-> k, w |-> w] : k \in {"uint", "int"}, w \in Widths}
    \cup {[kind |-> "float", w |-> 4]}

\* The bounds check of a typed read, looking at its first byte only.
ReadRefused_FirstByteOnly(c, t) == c.position >= c.size

\* The bounds check that opens a typed read (the one-byte reads have no
\* second disjunct).
ReadRefused(c, t) ==
    (c.position >= c.size) \/ (t.w > 1 /\ c.position + t.w > c.size)

\* temp |= _fixed_data[_position + k] << (8 * k) for each k below the width
\* with _position + k < _size; v holds the bytes loaded.
Assemble(c, v) ==
    LET byte(k) == IF k < Len(v) /\ c.position + k < c.size THEN v[k + 1] ELSE 0
    IN [lo |-> byte(0) + byte(1) * 256, hi |-> byte(2) + byte(3) * 256]

\* *value = 0 (0.0f, whose bit pattern is zero as well).
ZeroValue == [lo |-> 0, hi |-> 0]

\* The value of a typed read's output variable holding pattern x: the signed
\* reads hand it back as intN_t.
Typed(t, x) ==
    IF t.kind # "int" THEN x
    ELSE CASE t.w = 1 -> IF x.lo >= 128 THEN x.lo - 256 ELSE x.lo
           [] t.w = 2 -> IF x.lo >= 32768 THEN x.lo - 65536 ELSE x.lo
           [] OTHER   -> (IF x.hi >= 32768 THEN x.hi - 65536 ELSE x.hi) * 65536 + x.lo

BufRead(t) ==
    /\ IF ReadRefused(buf, t)
       THEN /\ out' = Out("read", t.kind, FALSE, t.w, 0, buf.position,
                            Typed(t, ZeroValue))
            /\ UNCHANGED buf
       ELSE /\ \E v \in ReadAt(_shared_buffer, buf.position, t.w) :
                  out' = Out("read", t.kind, TRUE, t.w, t.w, buf.position,
                             Typed(t, Assemble(buf, v)))
            /\ buf' = [buf EXCEPT !.position = buf.position + t.w]
    /\ UNCHANGED <<_shared_buffer, nwrites>>
    /\ UNCHANGED sessionVars

\* The typed writes: writeUint8/16/32, writeInt8/16/32, writeFloat.
TypedWrites == TypedReads

\* Values handed to a typed write.  An unsigned value, and a float's bit
\* pattern, is two 16-bit halves; a signed value is an integer.
Values(t) ==
    IF t.kind = "int"
    THEN CASE t.w = 1 -> {-2}
           [] t.w = 2 -> {258, -2}
           [] OTHER   -> {16909060, -16909060}
    ELSE IF t.kind = "float"
    THEN {[lo |-> 0, hi |-> 16320]}
    ELSE CASE t.w = 1 -> {[lo |-> 165, hi |-> 0]}
           [] t.w = 2 -> {[lo |-> 258, hi |-> 0], [lo |-> 65534, hi |-> 0]}
           [] OTHER   -> {[lo |-> 772, hi |-> 258], [lo |-> 65020, hi |-> 65534]}

\* static_cast<uintN_t>(value) of the signed writes: the value modulo 2^N.
Pattern(t, v) ==
    IF t.kind # "int" THEN v
    ELSE CASE t.w = 1 -> [lo |-> v % 256, hi |-> 0]
           [] t.w = 2 -> [lo |-> v % 65536, hi |-> 0]
           [] OTHER   -> [lo |-> v % 65536, hi |-> (v \div 65536) % 65536]

\* A pattern with its bytes in the opposite order.
StoredBytes_BigEndian(x, w) ==
    LET le == <<x.lo % 256, (x.lo \div 256) % 256, x.hi % 256, (x.hi \div 256) % 256>>
    IN [i \in 1..w |-> le[w + 1 - i]]

\* value & 0xFF, (value >> 8) & 0xFF, (value >> 16) & 0xFF, (value >> 24) & 0xFF.
StoredBytes(x, w) ==
    SubSeq(<<x.lo % 256, (x.lo \div 256) % 256, x.hi % 256, (x.hi \div 256) % 256>>,
           1, w)

\* EnsureCapacity looking at the bytes asked for only.
EnsureCapacity_FromStart(c, additionalBytes) == additionalBytes <= c.capacity

\* BytesBuffer::ensureCapacity.
EnsureCapacity(c, additionalBytes) == c.position + additionalBytes <= c.capacity

BufWrite(t, v) ==
    /\ nwrites < MaxWrites
    /\ nwrites' = nwrites + 1
    /\ IF ~EnsureCapacity(buf, t.w)
       THEN /\ out' = Out("write", t.kind, FALSE, t.w, 0, buf.position, v)
            /\ UNCHANGED <<buf, _shared_buffer>>
       ELSE /\ _shared_buffer' = Memcpy(_shared_buffer, buf.position,
                                        StoredBytes(Pattern(t, v), t.w), t.w)
            /\ buf' = Advanced(buf, t.w)
            /\ out' = Out("write", t.kind, TRUE, t.w, t.w, buf.position, v)
    /\ UNCHANGED sessionVars

BufReadBytes(length) ==
    /\ LET bytesToRead == BytesToRead(buf, length)
       IN /\ \E v \in ReadAt(_shared_buffer, buf.position, bytesToRead) :
                out' = Out("readBytes", "bytes", TRUE, length, bytesToRead,
                           buf.position, v)
          /\ buf' = [buf EXCEPT !.position = buf.position + bytesToRead]
    /\ UNCHANGED <<_shared_buffer, nwrites>>
    /\ UNCHANGED sessionVars

\* peekBytes: the length after the clamp to the data behind offset.
PeekLength(c, offset, length) ==
    IF offset + length > c.size THEN c.size - offset ELSE length

BufPeekBytes(offset, length) ==
    /\ IF offset >= buf.size
       THEN out' = Out("peekBytes", "bytes", FALSE, length, 0, offset, <<>>)
       ELSE LET n == PeekLength(buf, offset, length)
            IN \E v \in ReadAt(_shared_buffer, offset, n) :
                  out' = Out("peekBytes", "bytes", n > 0, length, n, offset, v)
    /\ UNCHANGED <<buf, _shared_buffer, nwrites>>
    /\ UNCHANGED sessionVars

BufWriteBytes(length) ==
    /\ nwrites < MaxWrites
    /\ nwrites' = nwrites + 1
    /\ IF ~EnsureCapacity(buf, length)
       THEN /\ out' = Out("writeBytes", "bytes", FALSE, length, 0, buf.position, <<>>)
            /\ UNCHANGED <<buf, _shared_buffer>>
       ELSE /\ _shared_buffer' =
                  Memcpy(_shared_buffer, buf.position, Payload(length), length)
            /\ buf' = Advanced(buf, length)
            /\ out' = Out("writeBytes", "bytes", TRUE, length, length, buf.position,
                       <<>>)
    /\ UNCHANGED sessionVars

BufSetPosition(position) ==
    /\ buf' = [buf EXCEPT !.position = Min(position, buf.size)]
    /\ out' = [NoOut EXCEPT !.op = "setPosition", !.n = position]
    /\ UNCHANGED <<_shared_buffer, nwrites>>
    /\ UNCHANGED sessionVars

\* setSize: the result of ensureCapacity is not looked at.
BufSetSize(size) ==
    /\ buf' = [buf EXCEPT !.size = size,
                          !.position = IF buf.position > size THEN size
                                       ELSE buf.position]
    /\ out' = [NoOut EXCEPT !.op = "setSize", !.n = size]
    /\ UNCHANGED <<_shared_buffer, nwrites>>
    /\ UNCHANGED sessionVars

BufReset ==
    /\ buf' = [buf EXCEPT !.position = 0]
    /\ out' = [NoOut EXCEPT !.op = "reset"]
    /\ UNCHANGED <<_shared_buffer, nwrites>>
    /\ UNCHANGED sessionVars

NextBuf ==
    /\ UNCHANGED rt
    /\ \/ BufCtor
       \/ \E length \in Lengths : BufCtorData(length)
       \/ \E t \in TypedReads : BufRead(t)
       \/ \E t \in TypedWrites : \E v \in Values(t) : BufWrite(t, v)
       \/ \E length \in Lengths : BufReadBytes(length)
       \/ \E length \in Lengths : BufWriteBytes(length)
       \/ \E position \in Lengths : BufSetPosition(position)
       \/ \E size \in Lengths : BufSetSize(size)
       \/ BufReset

\* A BytesBuffer needs no session: the driver object is left unconnected.
InitBuf == Init /\ connection = "none"

SpecBuf == InitBuf /\ [][NextBuf]_vars

(***************************************************************************)
(* A BytesBuffer that is only read, as the driver does with a response      *)
(* (specification SpecRead).                                               *)
(***************************************************************************)
NextRead ==
    /\ UNCHANGED rt
    /\ \/ BufCtor
       \/ \E length \in Lengths : BufCtorData(length)
       \/ \E t \in TypedReads : BufRead(t)
       \/ \E length \in Lengths : BufReadBytes(length)
       \/ \E offset \in Lengths, length \in Lengths : BufPeekBytes(offset, length)
       \/ \E position \in Lengths : BufSetPosition(position)
       \/ \E size \in Lengths : BufSetSize(size)
       \/ BufReset

SpecRead == InitBuf /\ [][NextRead]_vars

(***************************************************************************)
(* Write and read back (specification SpecRoundTrip): a buffer is          *)
(* constructed over some data, the position is set, one write is made, the *)
(* position is set back to where the write began and the matching read is  *)
(* made.  rt keeps what was written.                                       *)
(***************************************************************************)
Positions == 0..(MAX_BUFFER_SIZE + MaxOver)

RtConstruct(length) ==
    /\ rt.pc = "new"
    /\ BufCtorData(length)
    /\ rt' = [rt EXCEPT !.pc = "built"]

RtSeek(position) ==
    /\ rt.pc = "built"
    /\ BufSetPosition(position)
    /\ rt' = [rt EXCEPT !.pc = "placed"]

RtWrite(t, v) ==
    /\ rt.pc = "placed"
    /\ BufWrite(t, v)
    /\ rt' = [pc |-> "written", t |-> t, v |-> v, position |-> buf.position,
              ok |-> out'.ok]

RtWriteBytes(length) ==
    /\ rt.pc = "placed"
    /\ BufWriteBytes(length)
    /\ rt' = [pc |-> "written", t |-> [kind |-> "bytes", w |-> length],
              v |-> Payload(length), position |-> buf.position, ok |-> out'.ok]

RtSeekBack ==
    /\ rt.pc = "written"
    /\ BufSetPosition(rt.position)
    /\ rt' = [rt EXCEPT !.pc = "back"]

RtRead ==
    /\ rt.pc = "back"
    /\ IF rt.t.kind = "bytes" THEN BufReadBytes(rt.t.w) ELSE BufRead(rt.t)
    /\ rt' = [rt EXCEPT !.pc = "read"]

NextRoundTrip ==
    \/ \E length \in Lengths : RtConstruct(length)
    \/ \E position \in Positions : RtSeek(position)
    \/ \E t \in TypedWrites : \E v \in Values(t) : RtWrite(t, v)
    \/ \E length \in Lengths : RtWriteBytes(length)
    \/ RtSeekBack
    \/ RtRead

SpecRoundTrip == InitBuf /\ [][NextRoundTrip]_vars

\* C10: position <= size <= capacity in every state of a BytesBuffer.
Cex_C10_CursorWithinCapacity ==
    /\ buf.position <= buf.size
    /\ buf.size <= buf.capacity
    /\ buf.capacity = MAX_BUFFER_SIZE

\* C11: a typed read of width w succeeds iff position + w <= size; a
\* successful one advances the position by w, a failed one leaves it alone and
\* hands back zero.
Thm_C11_TypedRead ==
    out.op = "read" =>
        /\ out.ok <=> (out.pos0 + out.n <= buf.size)
        /\ out.ok => buf.position = out.pos0 + out.n
        /\ ~out.ok => /\ buf.position = out.pos0
                      /\ out.value = IF out.kind = "int" THEN 0 ELSE [lo |-> 0, hi |-> 0]

\* A four-byte read refused with some, but not four, bytes left.
Wit_C11_PartlyAvailable ==
    /\ out.op = "read" /\ out.n = 4 /\ ~out.ok
    /\ out.pos0 < buf.size /\ out.pos0 + 4 > buf.size

\* C13: readBytes hands back min(n, size - position) bytes and advances the
\* position by as many; asked for more than is available, it stops at size.
Thm_C13_ReadBytes ==
    out.op = "readBytes" =>
        /\ out.count = Min(out.n, buf.size - out.pos0)
        /\ Len(out.value) = out.count
        /\ buf.position = out.pos0 + out.count
        /\ out.n > buf.size - out.pos0 => buf.position = buf.size

\* readBytes asked for more than the bytes left, some being left.
Wit_C13_ShortRead ==
    out.op = "readBytes" /\ out.count > 0 /\ out.n > out.count

\* C14: peekBytes leaves the position alone, copies min(len, size - offset)
\* bytes, and reports success for every offset below size.
Cex_C14_PeekSucceedsInBounds ==
    out.op = "peekBytes" =>
        /\ out.pos0 < buf.size => out.count = Min(out.n, buf.size - out.pos0)
        /\ out.ok <=> (out.pos0 < buf.size)

\* C12: a write that would pass the capacity fails and changes neither the
\* cursor nor a stored byte; any other write of n bytes succeeds, advances the
\* position by n, lifts size to the new position when that is larger, and
\* leaves the bytes outside [position, position + n) as they were.
Thm_C12_WriteFrame ==
    [][(rt.pc = "placed" /\ rt'.pc = "written") =>
        LET n == rt'.t.w
            p == buf.position
        IN IF p + n > MAX_BUFFER_SIZE
           THEN /\ ~rt'.ok
                /\ buf' = buf
                /\ _shared_buffer' = _shared_buffer
           ELSE /\ rt'.ok
                /\ buf'.position = p + n
                /\ buf'.size = IF p + n > buf.size THEN p + n ELSE buf.size
                /\ \A i \in 1..Len(_shared_buffer) :
                      (i <= p \/ i > p + n) => _shared_buffer'[i] = _shared_buffer[i]
                /\ SubSeq(_shared_buffer', p + 1, p + n) =
                      IF rt'.t.kind = "bytes" THEN rt'.v
                      ELSE StoredBytes(Pattern(rt'.t, rt'.v), n)]_vars

\* A four-byte write refused with room for some of its bytes only.
Wit_C12_RefusedNearEnd ==
    /\ rt.pc = "written" /\ ~rt.ok /\ rt.t.w = 4
    /\ rt.position < MAX_BUFFER_SIZE
    /\ buf.size < MAX_BUFFER_SIZE

\* The bytes of the two's complement encoding of v in w bytes, least
\* significant first: v as an integer, or as two 16-bit halves.
LittleEndian(t, v) ==
    LET pow == <<1, 256>>
    IN IF t.kind = "int"
       THEN [i \in 1..t.w |-> IF i <= 2 THEN (v \div pow[i]) % 256
                              ELSE ((v \div 65536) \div pow[i - 2]) % 256]
       ELSE [i \in 1..t.w |-> IF i <= 2 THEN (v.lo \div pow[i]) % 256
                              ELSE (v.hi \div pow[i - 2]) % 256]

\* C15: a 16- or 32-bit value written where there is room is stored as its
\* little-endian bytes, and the matching read from the same position hands
\* the value back.
Thm_C15_RoundTrip ==
    (/\ rt.pc = "read"
     /\ rt.t.kind \in {"uint", "int"}
     /\ rt.t.w \in {2, 4}
     /\ rt.position + rt.t.w <= MAX_BUFFER_SIZE)
    => /\ rt.ok
       /\ SubSeq(_shared_buffer, rt.position + 1, rt.position + rt.t.w)
             = LittleEndian(rt.t, rt.v)
       /\ out.op = "read" /\ out.ok
       /\ out.value = rt.v
       /\ (rt.t = [kind |-> "uint", w |-> 4] /\ rt.v = [lo |-> 772, hi |-> 258])
            => SubSeq(_shared_buffer, rt.position + 1, rt.position + 4) = <<4, 3, 2, 1>>

\* A negative 32-bit value, 0xFEFDFCFC as a pattern, written past the start
\* of the buffer and read back.
Wit_C15_Negative ==
    /\ rt.pc = "read" /\ rt.ok /\ out.ok
    /\ rt.t = [kind |-> "int", w |-> 4]
    /\ rt.v = -16909060 /\ out.value = -16909060
    /\ rt.position > 0
    /\ SubSeq(_shared_buffer, rt.position + 1, rt.position + 4) = <<252, 252, 253, 254>>

(***************************************************************************)
(* The command wrappers (specification SpecCmd): one step is one call of a *)
(* wrapper, RadiaCode::execute and the handling of its response included;  *)
(* what the transport hands back is an input.  The responses are followed  *)
(* in a buffer that holds each of them whole: the cursor a wrapper works   *)
(* on is [size, position] over the response's bytes, which is what         *)
(* _shared_buffer holds below size.                                        *)
(***************************************************************************)
MaxCalls == 2
MaxData == 4
CmdCapacity == 40

RD_VIRT_STRING == 2086
SERIAL_NUMBER == 8
TEXT_MESSAGE == 15

\* What the last wrapper call was and gave: args what it was called with,
\* opcode and payload what it handed to RadiaCode::execute, sent whether execute was called, seq0 the sequence
\* counter before the call, resp the bytes the transport handed back, r the
\* cursor the wrapper ended with, values and result what it returned.
Cmd(op, opcode, args, payload, isSent, resp, r, path, values, result) ==
    [op |-> op, opcode |-> opcode, args |-> args, payload |-> payload,
     sent |-> isSent,
     seq0 |-> _seq, frames0 |-> frames, resp |-> resp, r |-> r, path |-> path,
     values |-> values, result |-> result,
     prev |-> IF cmd.op = "none" THEN "none"
              ELSE IF cmd.resp = <<>> THEN "empty" ELSE "reply"]

\* BytesBuffer(_resp_buffer + 4, dataSize) for a response of these bytes.
Handed(resp) ==
    [size |-> Min(Len(resp), CmdCapacity), position |-> 0, capacity |-> CmdCapacity]

\* RadiaCode::execute: the cursor it returns, the echoed header read.
Response(resp) == AfterHeader(Handed(resp))

\* The bytes of a 32-bit value, least significant first, as two halves.
Halves(b) == [lo |-> b[1] + 256 * b[2], hi |-> b[3] + 256 * b[4]]

\* A refused read that leaves *value as it found it, here 1.
ReadUint32_Unset(c, store) ==
    IF ReadRefused(c, [kind |-> "uint", w |-> 4])
    THEN [ok |-> FALSE, value |-> [lo |-> 1, hi |-> 0], c |-> c]
    ELSE [ok |-> TRUE,
          value |-> Assemble(c, SubSeq(store, c.position + 1, c.position + 4)),
          c |-> [c EXCEPT !.position = c.position + 4]]

\* readUint32 on cursor c over store: what it returns, the value it leaves in
\* *value and the cursor afterwards.
ReadUint32(c, store) ==
    IF ReadRefused(c, [kind |-> "uint", w |-> 4])
    THEN [ok |-> FALSE, value |-> ZeroValue, c |-> c]
    ELSE [ok |-> TRUE,
          value |-> Assemble(c, SubSeq(store, c.position + 1, c.position + 4)),
          c |-> [c EXCEPT !.position = c.position + 4]]

\* RadiaCode::execute as a wrapper calls it: nothing is sent without a
\* connection object.
CmdExecute(opcode, args) ==
    /\ xchg < MaxCalls
    /\ xchg' = xchg + 1
    /\ IF connection = "none"
       THEN UNCHANGED <<_seq, req_header, request, frames>>
       ELSE /\ req_header' = ReqHeader(opcode, _seq)
            /\ _seq' = NextSeq(_seq)
            /\ request' = FullRequest(opcode, _seq, args)
            /\ frames' = frames + 1

\* What the transport may hand back: nothing unless a device is connected.
Handback(replies) == IF connection = "up" THEN replies \cup {<<>>} ELSE {<<>>}

\* A wrapper call leaves these alone.
cmdUnchanged ==
    <<connection, pos, rc_pc, bt_pc, elapsedTime, _resp_buffer, _resp_received,
      _resp_size, _response_ready, _shared_buffer, sent, wire, reply, origin,
      delivered, ret, buf, out, nwrites, rt, dec, shared_counts, spectra>>

\* C35: the reassembly buffer is never overrun: with chunks no longer than
\* the buffer, the bytes stored never exceed MAX_RESP_SIZE, every byte copied
\* lies below that bound, and the cursor built from the buffer holds at most
\* MAX_BUFFER_SIZE bytes, all of them taken from the bytes stored.
Thm_C35_NoOverrun ==
    /\ _resp_received <= MAX_RESP_SIZE
    /\ Len(_resp_buffer) <= MAX_RESP_SIZE
    /\ Len(_resp_buffer) = _resp_received
    /\ response.size <= MAX_BUFFER_SIZE
    /\ Returned => response.size <= (IF ret.received > 4 THEN ret.received - 4 ELSE 0)

Wit_C35_FullThenDropped ==
    /\ Returned
    /\ ret.path = "ready"
    /\ ret.received = MAX_RESP_SIZE
    /\ ret.delivered > ret.received
    /\ response.size = MAX_RESP_SIZE - 4

(***************************************************************************)
(* RadiaCode::readRequest.                                                 *)
(***************************************************************************)
DataBytes == {0, 65}

\* The data of length n sent: text, its last byte from DataBytes.
DataOf(n) == {[i \in 1..n |-> IF i = n THEN last ELSE 65] : last \in DataBytes}

\* The lengths a virtual-string reply declares: up to the longest data sent,
\* and 0xFFFFFFFF.
Declared32 ==
    {[lo |-> k, hi |-> 0] : k \in 0..MaxData} \cup {[lo |-> 65535, hi |-> 65535]}

\* What the transport may hand back for a virtual-string read with header h:
\* the echoed header, a retcode, a declared length and data; or less.
ReadReplies(h) ==
    {h \o LE32(retcode) \o StoredBytes(flen, 4) \o d :
        retcode \in {0, 1}, flen \in Declared32,
        d \in UNION {DataOf(n) : n \in 0..MaxData}}
    \cup {h, h \o <<1, 0, 0>>, h \o LE32(1), h \o LE32(1) \o <<1, 0, 0>>}

\* flen + 1 in uint32_t.
PlusOne(x) ==
    IF x.lo = 65535 THEN [lo |-> 0, hi |-> (x.hi + 1) % 65536]
    ELSE [lo |-> x.lo + 1, hi |-> x.hi]

\* remaining_size == (flen + 1), remaining_size being below 2^16.
EqualsSize(x, n) == x.hi = 0 /\ x.lo = n

\* peekBytes(&last_byte, remaining_size - 1, 1): the values last_byte may hold
\* afterwards.  The offset counts from the start of the buffer; with nothing
\* remaining it wraps to SIZE_MAX, the peek is refused and last_byte keeps
\* whatever its storage held.
PeekedLast(c, store, remaining_size) ==
    LET offset == remaining_size - 1
    IN IF offset < 0 \/ offset >= c.size \/ PeekLength(c, offset, 1) = 0 THEN Junk
       ELSE {store[offset + 1]}

\* setSize(size): the position follows a size below it.
SetSize(c, size) ==
    [c EXCEPT !.size = size,
              !.position = IF c.position > size THEN size ELSE c.position]

\* The workaround at the end of readRequest: the cursors it may leave.
AfterWorkaround(c, store, flen) ==
    LET remaining_size == c.size - c.position
    IN IF EqualsSize(PlusOne(flen), remaining_size)
       THEN {IF last_byte = 0 THEN SetSize(c, c.position + remaining_size - 1) ELSE c :
                last_byte \in PeekedLast(c, store, remaining_size)}
       ELSE {c}

ReadRequest(command_id, resp) ==
    /\ CmdExecute(RD_VIRT_STRING, LE32(command_id))
    /\ LET r == Response(resp)
           rc == ReadUint32(r, resp)
           fl == ReadUint32(rc.c, resp)
           Done(path, c) ==
               Cmd("readRequest", RD_VIRT_STRING, command_id, LE32(command_id), TRUE, resp, c,
                   path, <<>>, c.size > 0)
       IN /\ response' = r
          /\ IF r.size < 8 THEN cmd' = Done("short", EmptyCursor)
             ELSE IF ~(rc.ok /\ fl.ok) THEN cmd' = Done("header", EmptyCursor)
             ELSE \E c \in AfterWorkaround(fl.c, resp, fl.value) :
                     cmd' = Done("returned", c)
    /\ UNCHANGED cmdUnchanged

NextCmd ==
    \/ \E command_id \in {SERIAL_NUMBER, TEXT_MESSAGE} :
          \E resp \in Handback(ReadReplies(ReqHeader(RD_VIRT_STRING, _seq))) :
             ReadRequest(command_id, resp)

SpecCmd == Init /\ [][NextCmd]_vars

\* The bytes a cursor still offers.
Available(c) == c.size - c.position

\* The inner header of a virtual-string reply, taken from its bytes.
Retcode(resp) == Halves(SubSeq(resp, 5, 8))
Flen(resp) == Halves(SubSeq(resp, 9, 12))

\* The workaround's case: one byte more than declared, and that byte zero.
ExtraZero(resp) ==
    /\ Flen(resp).hi = 0
    /\ Len(resp) - 12 = Flen(resp).lo + 1
    /\ resp[Len(resp)] = 0

\* C16: with the inner header read, the returned cursor offers the declared
\* length when the remaining bytes are one more than declared and the last byte
\* of the response is zero, and every remaining byte otherwise.
Cex_C16_DropsOnLastByte ==
    (cmd.op = "readRequest" /\ Len(cmd.resp) >= 12) =>
        Available(cmd.r) = IF ExtraZero(cmd.resp) THEN Flen(cmd.resp).lo
                           ELSE Len(cmd.resp) - 12

\* C17: readRequest returns a cursor with nothing to read when the inner header
\* is short, when the retcode is not 1, and when the declared length is neither
\* the number of remaining bytes nor one less.
Cex_C17_EmptyOnInvalid ==
    (/\ cmd.op = "readRequest"
     /\ \/ Len(cmd.resp) < 12
        \/ Retcode(cmd.resp) # [lo |-> 1, hi |-> 0]
        \/ /\ Flen(cmd.resp) # [lo |-> Len(cmd.resp) - 12, hi |-> 0]
           /\ PlusOne(Flen(cmd.resp)) # [lo |-> Len(cmd.resp) - 12, hi |-> 0])
    => Available(cmd.r) = 0

(***************************************************************************)
(* The register batches (specification SpecBatch): batchReadVSFRs and      *)
(* setAlarmLimits, one call a step.                                        *)
(***************************************************************************)
MaxIds == 3

WR_VIRT_SFR_BATCH == 2091
DR_LEV1_uR_h == 32768
DR_LEV2_uR_h == 32769
DS_UNITS == 32772
CR_LEV1_cp10s == 32776
CR_LEV2_cp10s == 32777
CR_UNITS == 32787
DS_LEV1_uR == 32788
DS_LEV2_uR == 32789
TEMP_degC == 32804
RAW_TEMP_degC == 32819
TEMP_UP_degC == 32820
TEMP_DN_degC == 32821

\* The 32-bit words ws, each least significant byte first.
RECURSIVE Words(_)
Words(ws) == IF ws = <<>> THEN <<>> ELSE LE32(Head(ws)) \o Words(Tail(ws))

\* (1 << n) - 1 for one bit fewer.
ExpectedFlags_OneShort(n) ==
    LET m == IF n > 0 THEN n - 1 ELSE 0
    IN [lo |-> (2^m - 1) % 65536, hi |-> (2^m - 1) \div 65536]

\* (1 << n) - 1 as two 16-bit halves.
ExpectedFlags(n) == [lo |-> (2^n - 1) % 65536, hi |-> (2^n - 1) \div 65536]

RECURSIVE BitLen(_)
BitLen(n) == IF n = 0 THEN 0 ELSE 1 + BitLen(n \div 2)

\* (float)raw_value: the nearest value with a 24-bit significand, ties to even.
RoundToFloat(x) ==
    IF x.hi < 256 THEN x
    ELSE LET unit == 2^(BitLen(x.hi) - 8)
             q == x.lo \div unit
             r == x.lo % unit
             up == (2 * r > unit) \/ (2 * r = unit /\ q % 2 = 1)
             lo == (IF up THEN q + 1 ELSE q) * unit
         IN IF lo = 65536 THEN [lo |-> 0, hi |-> x.hi + 1] ELSE [lo |-> lo, hi |-> x.hi]

\* The float pushed for register vsfr_id read as raw_value: its bit pattern
\* (form "bits") or its numeric value (form "value").
Convert(vsfr_id, raw_value) ==
    IF vsfr_id \in {CHN_TO_keV_A0, CHN_TO_keV_A1, CHN_TO_keV_A2, TEMP_degC,
                    RAW_TEMP_degC, TEMP_UP_degC, TEMP_DN_degC}
    THEN [form |-> "bits", x |-> raw_value]
    ELSE IF vsfr_id \in {DS_UNITS, CR_UNITS}
    THEN [form |-> "value", x |-> [lo |-> raw_value.lo % 2, hi |-> 0]]
    ELSE [form |-> "value", x |-> RoundToFloat(raw_value)]

\* The loop over the ids: one readUint32 and one push_back each.
RECURSIVE ReadValues(_, _, _)
ReadValues(c, store, ids) ==
    IF ids = <<>> THEN <<>>
    ELSE LET rd == ReadUint32(c, store)
         IN <<Convert(Head(ids), rd.value)>> \o ReadValues(rd.c, store, Tail(ids))

\* The id lists asked for: the first registers of two lists, none included.
IdLists ==
    {SubSeq(l, 1, n) : n \in 0..MaxIds,
                       l \in {<<CHN_TO_keV_A0, CHN_TO_keV_A1, CHN_TO_keV_A2, TEMP_degC>>,
                              <<DS_UNITS, DR_LEV1_uR_h, CR_UNITS, DS_LEV1_uR>>}}

\* Raw register values: 1, the pattern of 1.0f, 2^24 + 1.
RawValues == {[lo |-> 1, hi |-> 0], [lo |-> 0, hi |-> 16256], [lo |-> 1, hi |-> 256]}

\* The bitmask with the n lowest bits set.
Ones(n) == [lo |-> (2^n - 1) % 65536, hi |-> (2^n - 1) \div 65536]

\* Validity bitmasks a device may answer for n registers: all of them, all but
\* the last, none, one too many.
Bitmasks(n) ==
    {Ones(n), Ones(IF n > 0 THEN n - 1 ELSE 0), Ones(0), Ones(n + 1)}

\* What the transport may hand back for a batch read of n registers with
\* header h: a bitmask and n equal values, or fewer values, or less.
BatchReplies(h, n) ==
    {h \o StoredBytes(f, 4) \o Words([i \in 1..k |-> 0]) \o d :
        f \in Bitmasks(n), k \in {n - 1}, d \in {<<>>, <<1, 0>>}}
    \cup {h \o StoredBytes(f, 4) \o
            [i \in 1..(4 * n) |-> StoredBytes(v, 4)[((i - 1) % 4) + 1]] :
          f \in Bitmasks(n), v \in RawValues}
    \cup {h, h \o <<7, 0>>}

BatchReadVSFRs(vsfr_ids, resp) ==
    LET nvsfr == Len(vsfr_ids)
        msg == LE32(nvsfr) \o Words(vsfr_ids)
        r == Response(resp)
        valid_flags == ReadUint32(r, resp)
        Done(isSent, path, c, values) ==
            Cmd("batchReadVSFRs", RD_VIRT_SFR_BATCH, vsfr_ids,
                IF isSent THEN msg ELSE <<>>, isSent, resp, c, path, values,
                values # <<>>)
    IN IF nvsfr = 0
       THEN /\ resp = <<>>
            /\ cmd' = Done(FALSE, "noids", EmptyCursor, <<>>)
            /\ UNCHANGED <<xchg, _seq, req_header, request, frames, response>>
            /\ UNCHANGED cmdUnchanged
       ELSE /\ CmdExecute(RD_VIRT_SFR_BATCH, msg)
            /\ response' = r
            /\ IF valid_flags.value # ExpectedFlags(nvsfr)
               THEN cmd' = Done(TRUE, "flags", valid_flags.c, <<>>)
               ELSE cmd' = Done(TRUE, "values", valid_flags.c,
                                ReadValues(valid_flags.c, resp, vsfr_ids))
            /\ UNCHANGED cmdUnchanged

(***************************************************************************)
(* RadiaCode::setAlarmLimits.  A limit is a whole number, negative when    *)
(* not specified; a dose limit is given in millionths of its unit.         *)
(***************************************************************************)
LimitRegisters ==
    <<CR_LEV1_cp10s, CR_LEV2_cp10s, DR_LEV1_uR_h, DR_LEV2_uR_h, DS_LEV1_uR, DS_LEV2_uR>>

\* The limits with l >= 0.0f, in the order they are looked at.
Specified(limits) == SelectSeq(<<1, 2, 3, 4, 5, 6>>, LAMBDA i : limits[i] >= 0)

\* (uint32_t)round(limit * multiplier) for limit i.
ScaledLimit(i, l, dose_unit_sv, count_unit_cpm) ==
    IF i <= 2
    THEN IF count_unit_cpm THEN (2 * l + 6) \div 12 ELSE l * 10
    ELSE IF dose_unit_sv THEN l * 100 ELSE l

\* which_limits without the two unit registers.
WhichLimits_NoUnits(limits) ==
    [k \in 1..Len(Specified(limits)) |-> LimitRegisters[Specified(limits)[k]]]

\* which_limits: the registers of the limits specified, then the two unit
\* registers.
WhichLimits(limits) ==
    [k \in 1..Len(Specified(limits)) |-> LimitRegisters[Specified(limits)[k]]]
    \o <<DS_UNITS, CR_UNITS>>

\* limit_values, register by register.
LimitValues(limits, dose_unit_sv, count_unit_cpm) ==
    [k \in 1..Len(Specified(limits)) |->
        ScaledLimit(Specified(limits)[k], limits[Specified(limits)[k]],
                    dose_unit_sv, count_unit_cpm)]
    \o <<IF dose_unit_sv THEN 1 ELSE 0, IF count_unit_cpm THEN 1 ELSE 0>>

\* The limits handed in: none, one at zero, one, two, all six.
LimitInputs ==
    { <<-1, -1, -1, -1, -1, -1>>, <<0, -1, -1, -1, -1, -1>>, <<30, -1, -1, -1, -1, -1>>,
      <<-1, -1, -1, 30, 30, -1>>, <<30, 30, 30, 30, 30, 30>> }

\* What the transport may hand back for a batch write of n registers with
\* header h: a bitmask, or less.
WriteReplies(h, n) ==
    {h \o StoredBytes(f, 4) : f \in Bitmasks(n)} \cup {h, h \o <<255, 0>>}

SetAlarmLimits(limits, dose_unit_sv, count_unit_cpm, resp) ==
    LET which_limits == WhichLimits(limits)
        num_to_set == Len(which_limits)
        msg == LE32(num_to_set) \o Words(which_limits)
               \o Words(LimitValues(limits, dose_unit_sv, count_unit_cpm))
        result == ReadUint32(Response(resp), resp)
        Done(isSent, path, c, ok) ==
            Cmd("setAlarmLimits", WR_VIRT_SFR_BATCH, limits,
                IF isSent THEN msg ELSE <<>>, isSent, resp, c, path, <<>>, ok)
    IN IF Specified(limits) = <<>>
       THEN /\ resp = <<>>
            /\ cmd' = Done(FALSE, "nolimits", EmptyCursor, FALSE)
            /\ UNCHANGED <<xchg, _seq, req_header, request, frames, response>>
            /\ UNCHANGED cmdUnchanged
       ELSE /\ CmdExecute(WR_VIRT_SFR_BATCH, msg)
            /\ response' = Response(resp)
            /\ cmd' = Done(TRUE, "sent", result.c, ExpectedFlags(num_to_set) = result.value)
            /\ UNCHANGED cmdUnchanged

NextBatch ==
    \/ \E vsfr_ids \in IdLists :
          \E resp \in Handback(BatchReplies(ReqHeader(RD_VIRT_SFR_BATCH, _seq),
                                            Len(vsfr_ids))) :
             BatchReadVSFRs(vsfr_ids, resp)
    \/ \E limits \in LimitInputs, dose_unit_sv \in BOOLEAN, count_unit_cpm \in BOOLEAN :
          \E resp \in Handback(WriteReplies(ReqHeader(WR_VIRT_SFR_BATCH, _seq),
                                            Len(WhichLimits(limits)))) :
             SetAlarmLimits(limits, dose_unit_sv, count_unit_cpm, resp)

SpecBatch == Init /\ [][NextBatch]_vars

\* The validity bitmask of a batch reply, taken from its bytes.
Bitmask(resp) == Halves(SubSeq(resp, 5, 8))

\* C18: a batch read of N registers returns nothing when the reply's bitmask
\* is not 2^N - 1, whatever follows it, and when the reply is empty.
Thm_C18_BitmaskGate ==
    (/\ cmd.op = "batchReadVSFRs"
     /\ cmd.sent
     /\ \/ cmd.resp = <<>>
        \/ /\ Len(cmd.resp) >= 8
           /\ Bitmask(cmd.resp) # [lo |-> 2^Len(cmd.args) - 1, hi |-> 0])
    => cmd.values = <<>>

\* Three registers asked for, bitmask 0b011, three raw values in the reply.
Wit_C18_PartialBitmask ==
    /\ cmd.op = "batchReadVSFRs"
    /\ Len(cmd.args) = 3
    /\ Len(cmd.resp) = 20
    /\ Bitmask(cmd.resp) = [lo |-> 3, hi |-> 0]
    /\ cmd.values = <<>>

\* The limits specified among the six handed in.
NumSpecified(limits) == Cardinality({i \in 1..6 : limits[i] >= 0})

\* C19: setAlarmLimits returns true exactly when the reply carries a bitmask
\* with one bit for each limit specified and for the two unit registers; with
\* no limit specified it returns false and sends nothing.
Thm_C19_AlarmLimits ==
    cmd.op = "setAlarmLimits" =>
        LET k == NumSpecified(cmd.args)
        IN IF k = 0
           THEN ~cmd.result /\ ~cmd.sent /\ frames = cmd.frames0 /\ _seq = cmd.seq0
           ELSE /\ cmd.sent
                /\ cmd.result <=> /\ Len(cmd.resp) >= 8
                                  /\ Bitmask(cmd.resp) = [lo |-> 2^(k + 2) - 1, hi |-> 0]

\* Two limits set and confirmed by the bitmask 0b1111.
Wit_C19_Accepted ==
    /\ cmd.op = "setAlarmLimits"
    /\ NumSpecified(cmd.args) = 2
    /\ cmd.result
    /\ Bitmask(cmd.resp) = [lo |-> 15, hi |-> 0]

\* C20: the frame sent for (opcode, payload) is the four little-endian bytes
\* of 4 + len(payload), then opcode low, opcode high, 0, sequence, then the
\* payload.
Thm_C20_FrameLayout ==
    (cmd.op # "none" /\ frames > cmd.frames0) =>
        LET n == 4 + Len(cmd.payload)
        IN request = <<n % 256, (n \div 256) % 256, 0, 0>>
                     \o <<cmd.opcode % 256, cmd.opcode \div 256, 0, 128 + cmd.seq0>>
                     \o cmd.payload

\* A second frame, with a payload of three registers.
Wit_C20_SecondFrame ==
    /\ cmd.op = "batchReadVSFRs"
    /\ cmd.seq0 = 1
    /\ Len(request) = 24
    /\ request[1] = 20

(***************************************************************************)
(* The register writes (specification SpecSet): writeRequest and the       *)
(* setters that check their input before calling it.                       *)
(***************************************************************************)
WR_VIRT_SFR == 2085
DEVICE_LANG == 1282
DEVICE_TIME == 1284
DISP_BRT == 1297
DISP_OFF_TIME == 1299
VIBRO_CTRL == 1328
CLICKS == 2
CONNECTION == 256
POWER == 512

\* What a function declared void hands to its caller.
Nothing == "nothing"

\* flags & bit, bit a power of two.
HasBit(flags, bit) == (flags \div bit) % 2 = 1

\* What the transport may hand back for a register write with header h: the
\* retcode 1, another retcode, or less.
WriteAcks(h) == {h \o LE32(1), h \o LE32(0), h}

\* RadiaCode::writeRequest called by op: the retcode is read and, when it is
\* not 1, a message is printed.
WriteRequest(op, args, command_id, data, resp) ==
    LET cmd_data == LE32(command_id) \o data
        retcode == ReadUint32(Response(resp), resp)
    IN /\ CmdExecute(WR_VIRT_SFR, cmd_data)
       /\ response' = Response(resp)
       /\ cmd' = Cmd(op, WR_VIRT_SFR, args, cmd_data, TRUE, resp, retcode.c,
                     IF retcode.value # [lo |-> 1, hi |-> 0] THEN "printed" ELSE "silent",
                     <<>>, Nothing)
       /\ UNCHANGED cmdUnchanged

\* A setter returning before writeRequest.
Returns(op, args, resp) ==
    /\ resp = <<>>
    /\ cmd' = Cmd(op, WR_VIRT_SFR, args, <<>>, FALSE, resp, EmptyCursor, "returned",
                  <<>>, Nothing)
    /\ UNCHANGED <<xchg, _seq, req_header, request, frames, response>>
    /\ UNCHANGED cmdUnchanged

\* RadiaCode::deviceTime.
DeviceTime(v, resp) == WriteRequest("deviceTime", v, DEVICE_TIME, LE32(v), resp)

\* A language check that lets "en" through only.
LanguageRefused_EnglishOnly(lang) == lang # "en"

\* strcmp(lang, "ru") != 0 && strcmp(lang, "en") != 0
LanguageRefused(lang) == lang # "ru" /\ lang # "en"

SetLanguage(lang, resp) ==
    IF LanguageRefused(lang) THEN Returns("setLanguage", lang, resp)
    ELSE WriteRequest("setLanguage", lang, DEVICE_LANG,
                      LE32(IF lang = "en" THEN 1 ELSE 0), resp)

SetVibroCtrl(ctrl_flags, resp) ==
    IF HasBit(ctrl_flags, CLICKS) \/ HasBit(ctrl_flags, CONNECTION)
       \/ HasBit(ctrl_flags, POWER)
    THEN Returns("setVibroCtrl", ctrl_flags, resp)
    ELSE WriteRequest("setVibroCtrl", ctrl_flags, VIBRO_CTRL, LE32(ctrl_flags), resp)

SetDisplayOffTime(seconds, resp) ==
    IF seconds # 5 /\ seconds # 10 /\ seconds # 15 /\ seconds # 30
    THEN Returns("setDisplayOffTime", seconds, resp)
    ELSE WriteRequest("setDisplayOffTime", seconds, DISP_OFF_TIME,
                      LE32(IF seconds = 30 THEN 3 ELSE (seconds \div 5) - 1), resp)

SetDisplayBrightness(brightness, resp) ==
    IF brightness > 9 THEN Returns("setDisplayBrightness", brightness, resp)
    ELSE WriteRequest("setDisplayBrightness", brightness, DISP_BRT, LE32(brightness),
                      resp)

NextSet ==
    \E resp \in Handback(WriteAcks(ReqHeader(WR_VIRT_SFR, _seq))) :
        \/ \E v \in {0, 1000} : DeviceTime(v, resp)
        \/ \E lang \in {"en", "ru", "de", "e", ""} : SetLanguage(lang, resp)
        \/ \E ctrl_flags \in {0, 1, 2, 256, 512, 12, 3, 5120, 768} : SetVibroCtrl(ctrl_flags, resp)
        \/ \E seconds \in {0, 5, 10, 15, 20, 30, 255} : SetDisplayOffTime(seconds, resp)
        \/ \E brightness \in {0, 9, 10, 255} : SetDisplayBrightness(brightness, resp)

SpecSet == Init /\ [][NextSet]_vars

\* A register write the device did not acknowledge with retcode 1.
WriteFailed(resp) == Len(resp) < 8 \/ Retcode(resp) # [lo |-> 1, hi |-> 0]

\* C22: a register write whose reply is empty or carries a retcode other than
\* 1 hands its caller something else than a successful write does, which is
\* Nothing.
Cex_C22_FailureReported ==
    (/\ cmd.op # "none"
     /\ cmd.opcode = WR_VIRT_SFR
     /\ cmd.sent
     /\ WriteFailed(cmd.resp)) =>
        cmd.result # Nothing

\* The inputs the four checked setters accept.
Accepted(op, args) ==
    CASE op = "setDisplayOffTime" -> args \in {5, 10, 15, 30}
      [] op = "setDisplayBrightness" -> args <= 9
      [] op = "setLanguage" -> args \in {"en", "ru"}
      [] op = "setVibroCtrl" -> /\ (args \div 2) % 2 = 0
                                /\ (args \div 256) % 2 = 0
                                /\ (args \div 512) % 2 = 0

\* C23: a checked setter given an input it does not accept sends no frame and
\* leaves the sequence counter alone; given one it accepts it makes one
\* register write, a single frame when there is a connection.
Thm_C23_RejectedWithoutExchange ==
    cmd.op \in {"setDisplayOffTime", "setDisplayBrightness", "setLanguage",
                "setVibroCtrl"} =>
        IF Accepted(cmd.op, cmd.args)
        THEN /\ cmd.sent
             /\ cmd.opcode = WR_VIRT_SFR
             /\ connection # "none" =>
                   /\ frames = cmd.frames0 + 1
                   /\ _seq = (cmd.seq0 + 1) % 32
                   /\ SubSeq(request, 5, 6) = <<37, 8>>
        ELSE /\ ~cmd.sent
             /\ frames = cmd.frames0
             /\ _seq = cmd.seq0

\* setVibroCtrl refusing CONNECTION | POWER in a session that has sent a frame.
Wit_C23_VibroRefused ==
    /\ cmd.op = "setVibroCtrl"
    /\ cmd.args = 768
    /\ ~cmd.sent
    /\ frames = 1

(***************************************************************************)
(* The spectrum decoder (specification SpecSpectrum): decodeSpectrum up to *)
(* the counts loop is one step, every iteration of a loop of               *)
(* decodeCountsV0 or decodeCountsV1 another.  A 32-bit count is two 16-bit *)
(* halves.                                                                 *)
(***************************************************************************)
MaxRuns == 2

\* A typed read on cursor c over store: what it returns, the value it leaves
\* in *value and the cursor afterwards.
\* A typed read that leaves the cursor where it was.
ReadTyped_Stuck(c, store, kind, w) ==
    LET t == [kind |-> kind, w |-> w]
    IN IF ReadRefused(c, t)
       THEN [ok |-> FALSE, value |-> Typed(t, ZeroValue), c |-> c]
       ELSE [ok |-> TRUE,
             value |-> Typed(t, Assemble(c, SubSeq(store, c.position + 1,
                                                   Min(c.position + w, Len(store))))),
             c |-> c]

ReadTyped(c, store, kind, w) ==
    LET t == [kind |-> kind, w |-> w]
    IN IF ReadRefused(c, t)
       THEN [ok |-> FALSE, value |-> Typed(t, ZeroValue), c |-> c]
       ELSE [ok |-> TRUE,
             value |-> Typed(t, Assemble(c, SubSeq(store, c.position + 1,
                                                   Min(c.position + w, Len(store))))),
             c |-> [c EXCEPT !.position = c.position + w]]

\* a + b in uint32_t.
Add32(a, b) ==
    [lo |-> (a.lo + b.lo) % 65536,
     hi |-> (a.hi + b.hi + (a.lo + b.lo) \div 65536) % 65536]

\* The test admitting one entry more than the array holds.
Room_OneMore(spectrum) == Len(spectrum.counts) <= MAX_CHANNELS

\* spectrum.count_size < Spectrum::MAX_CHANNELS, the test of every loop and
\* of every write.
Room(spectrum) == Len(spectrum.counts) < MAX_CHANNELS

\* The header taken to be a0, a1 and a2 alone.
HeaderSize_Coefficients == 3 * 4

\* The bytes of the header: the duration and a0, a1, a2.
HeaderSize == 4 + 3 * 4

\* spectrum.counts[spectrum.count_size++] = v, behind its bounds check.
Counted(spectrum, v) ==
    IF Room(spectrum)
    THEN [spectrum EXCEPT !.counts = Append(spectrum.counts, v)]
    ELSE spectrum

\* decodeSpectrum from its entry to the first test of a counts loop.
DecodeSpectrum(store, br, format_version) ==
    LET duration == ReadTyped(br, store, "uint", 4)
        a0 == ReadTyped(duration.c, store, "float", 4)
        a1 == ReadTyped(a0.c, store, "float", 4)
        a2 == ReadTyped(a1.c, store, "float", 4)
        cleared == [duration_sec |-> ZeroValue, a0 |-> ZeroValue, a1 |-> ZeroValue,
                    a2 |-> ZeroValue, counts |-> <<>>]
        d0 == [decoder |-> "spectrum", pc |-> "done", store |-> store, br0 |-> br,
               br |-> br, format_version |-> format_version, spectrum |-> cleared,
               last |-> ZeroValue, cnt |-> 0, vlen |-> 0, i |-> 0,
               input |-> [format |-> 0, runs |-> <<>>]]
        read == [d0 EXCEPT !.br = a2.c,
                           !.spectrum = [duration_sec |-> duration.value,
                                         a0 |-> a0.value, a1 |-> a1.value,
                                         a2 |-> a2.value, counts |-> <<>>]]
    IN IF Available(br) < HeaderSize THEN d0
       ELSE IF ~duration.ok THEN d0
       ELSE IF ~a0.ok THEN [d0 EXCEPT !.br = duration.c]
       ELSE IF ~a1.ok THEN [d0 EXCEPT !.br = a0.c]
       ELSE IF ~a2.ok THEN [d0 EXCEPT !.br = a1.c]
       ELSE IF format_version = 0
       THEN [read EXCEPT !.pc = IF Available(a2.c) < 4 THEN "done" ELSE "v0"]
       ELSE IF format_version = 1
       THEN [read EXCEPT !.pc = IF Available(a2.c) < 2 THEN "done" ELSE "v1"]
       ELSE read

\* decodeCountsV0: the loop test and one pass through the body.
CountsV0(d) ==
    LET count == ReadTyped(d.br, d.store, "uint", 4)
    IN IF ~(Available(d.br) > 0 /\ Available(d.br) >= 4
            /\ Room(d.spectrum))
       THEN [d EXCEPT !.pc = "done"]
       ELSE IF count.ok
       THEN [d EXCEPT !.br = count.c, !.spectrum = Counted(d.spectrum, count.value)]
       ELSE [d EXCEPT !.pc = "done"]

\* decodeCountsV1: the test of the outer loop and the run header.
RunHeader(d) ==
    LET u16 == ReadTyped(d.br, d.store, "uint", 2)
        cnt == (u16.value.lo \div 16) % 4096
    IN IF ~(Available(d.br) >= 2 /\ Room(d.spectrum))
       THEN [d EXCEPT !.pc = "done"]
       ELSE IF ~u16.ok THEN [d EXCEPT !.pc = "done"]
       ELSE [d EXCEPT !.br = u16.c, !.pc = "run", !.i = 0,
                      !.cnt = IF cnt > 4096 THEN 0 ELSE cnt,
                      !.vlen = u16.value.lo % 16]

\* The 24-bit delta read as unsigned.
Delta24_Unsigned(a, b, c) == (c % 256) * 65536 + b * 256 + a

\* (c << 16) | (b << 8) | a, c an int8_t.
Delta24(a, b, c) == c * 65536 + b * 256 + a

\* decodeCountsV1: the test of the inner loop and one entry of the run.
RunEntry(d) ==
    LET u8 == ReadTyped(d.br, d.store, "uint", 1)
        i8 == ReadTyped(d.br, d.store, "int", 1)
        i16 == ReadTyped(d.br, d.store, "int", 2)
        i32 == ReadTyped(d.br, d.store, "int", 4)
        b == ReadTyped(u8.c, d.store, "uint", 1)
        c == ReadTyped(b.c, d.store, "int", 1)
        Entry(br, v) ==
            [d EXCEPT !.br = br, !.last = v, !.i = d.i + 1,
                      !.spectrum = Counted(d.spectrum, v)]
        end_decoding == [d EXCEPT !.pc = "done"]
        AddSigned(val) == Add32(d.last, Pattern([kind |-> "int", w |-> 4], val))
    IN IF ~(d.i < d.cnt /\ Room(d.spectrum))
       THEN [d EXCEPT !.pc = "v1"]
       ELSE CASE d.vlen = 0 -> Entry(d.br, ZeroValue)
              [] d.vlen = 1 -> IF u8.ok THEN Entry(u8.c, u8.value) ELSE end_decoding
              [] d.vlen = 2 -> IF i8.ok THEN Entry(i8.c, AddSigned(i8.value))
                               ELSE end_decoding
              [] d.vlen = 3 -> IF i16.ok THEN Entry(i16.c, AddSigned(i16.value))
                               ELSE end_decoding
              [] d.vlen = 4 ->
                    IF Available(d.br) < 3 THEN end_decoding
                    ELSE IF ~u8.ok THEN end_decoding
                    ELSE IF ~b.ok THEN [end_decoding EXCEPT !.br = u8.c]
                    ELSE IF ~c.ok THEN [end_decoding EXCEPT !.br = b.c]
                    ELSE Entry(c.c, AddSigned(Delta24(u8.value.lo, b.value.lo, c.value)))
              [] d.vlen = 5 -> IF i32.ok THEN Entry(i32.c, AddSigned(i32.value))
                               ELSE end_decoding
              [] OTHER -> [d EXCEPT !.pc = "v1"]

\* The spectra handed to the decoder, each with the runs it was made of
\* (format 1, else format 0) and its bytes: 16 bytes of header (a duration of 60 s, a0 = 0.5,
\* a1 = 1.0, a2 = 2.0), then the runs, each a header and its values in the
\* width of its code with cut bytes missing at the end; or 32-bit counts
\* (format 0); or less than a header.
Spectra ==
    LET width == <<1, 1, 2, 3, 4>>
        Value(run, v) == IF run.vlen \in 1..5
                         THEN LittleEndian([kind |-> "int", w |-> width[run.vlen]], v)
                         ELSE <<>>
        RECURSIVE All(_, _)
        All(run, vs) == IF vs = <<>> THEN <<>>
                        ELSE Value(run, Head(vs)) \o All(run, Tail(vs))
        Whole(run) == <<(run.cnt * 16 + run.vlen) % 256, (run.cnt * 16 + run.vlen) \div 256>>
                      \o All(run, run.vals)
        Run(run) == SubSeq(Whole(run), 1, Len(Whole(run)) - run.cut)
        RECURSIVE Runs(_)
        Runs(rs) == IF rs = <<>> THEN <<>> ELSE Run(Head(rs)) \o Runs(Tail(rs))
        pool == { [cnt |-> 3, vlen |-> 2, vals |-> <<5, -2, 10>>, cut |-> 0],
                  [cnt |-> 2, vlen |-> 0, vals |-> <<>>, cut |-> 0],
                  [cnt |-> 1, vlen |-> 1, vals |-> <<200>>, cut |-> 0],
                  [cnt |-> 1, vlen |-> 3, vals |-> <<-300>>, cut |-> 0],
                  [cnt |-> 1, vlen |-> 4, vals |-> <<-65023>>, cut |-> 0],
                  [cnt |-> 1, vlen |-> 5, vals |-> <<16909060>>, cut |-> 0],
                  [cnt |-> 1, vlen |-> 6, vals |-> <<>>, cut |-> 0],
                  [cnt |-> MAX_CHANNELS + 1, vlen |-> 0, vals |-> <<>>, cut |-> 0],
                  [cnt |-> 3, vlen |-> 2, vals |-> <<5, -2, 10>>, cut |-> 2],
                  [cnt |-> 1, vlen |-> 4, vals |-> <<-65023>>, cut |-> 1] }
        header == <<60, 0, 0, 0, 0, 0, 0, 63, 0, 0, 128, 63, 0, 0, 0, 64>>
    IN {[format |-> 1, runs |-> rs, bytes |-> header \o Runs(rs)] :
           rs \in UNION {[1..n -> pool] : n \in 0..MaxRuns}}
       \cup {[format |-> 0, runs |-> <<>>, bytes |-> header \o Words([i \in 1..n |-> 300 + i]) \o tail] :
               n \in 1..(MAX_CHANNELS + 1), tail \in {<<>>, <<9, 9>>}}
       \cup {[format |-> 0, runs |-> <<>>, bytes |-> SubSeq(header, 1, n)] : n \in {0, 3, 15}}

(***************************************************************************)
(* The telemetry decoder (specification SpecDataBuf): every iteration of   *)
(* decodeDataBuf's loop is one step.  A float is its bit pattern, a value  *)
(* divided into a float the fraction [num, den].                           *)
(***************************************************************************)
MaxRecords == 2

\* a / b on C's integers: the quotient is rounded toward zero.
Quot(a, b) == IF a >= 0 THEN a \div b ELSE -((-a) \div b)

\* base_time_sec + (ts_offset * 10) / 1000 in uint32_t.  The product is an
\* int32_t and overflows for offsets beyond 214748364 either way, which is
\* undefined: the build wraps it and divides, or divides the offset by 100.
Timestamps(base_time_sec, ts_offset) ==
    LET int32 == [kind |-> "int", w |-> 4]
        x == Pattern(int32, ts_offset)
        wrapped == Typed(int32, [lo |-> (x.lo * 10) % 65536,
                                 hi |-> (x.hi * 10 + (x.lo * 10) \div 65536) % 65536])
    IN {Add32(base_time_sec, Pattern(int32, q)) :
           q \in {Quot(wrapped, 1000), Quot(ts_offset, 100)}}

\* The expected sequence number without the wrap.
Resync_NoWrap(seq) == seq + 1

\* next_seq = (seq + 1) % 256.
Resync(seq) == (seq + 1) % 256

\* An unknown pair skipped.
OnUnknown_Skips(d) == d

\* break: stop processing on an unknown data type.
OnUnknown(d) == [d EXCEPT !.pc = "done"]

\* Every sample taken to be 8 bytes.
SampleSize_Eight(gid) == 8

\* The bytes of one sample of the groups (1, 1), (1, 2) and (1, 3).
SampleSize(gid) == CASE gid = 1 -> 8 [] gid = 2 -> 16 [] gid = 3 -> 14

\* The body of a record by its (eid, gid): the typed reads in their order,
\* the item pushed ("nothing" for the shapes parsed and dropped) and the
\* bytes per sample skipped with setPosition.
Shape(eid, gid) ==
    LET u8 == [kind |-> "uint", w |-> 1]
        u16 == [kind |-> "uint", w |-> 2]
        u32 == [kind |-> "uint", w |-> 4]
        f == [kind |-> "float", w |-> 4]
        S(name, emits, reads, sample) ==
            [name |-> name, emits |-> emits, reads |-> reads, sample |-> sample]
    IN CASE eid = 0 /\ gid = 0 -> S("RealTimeData", "RealTimeData", <<f, f, u16, u16, u16, u8>>, 0)
         [] eid = 0 /\ gid = 1 -> S("RawData", "RawData", <<f, f>>, 0)
         [] eid = 0 /\ gid = 2 -> S("DoseRateDB", "DoseRateDB", <<u32, f, f, u16, u16>>, 0)
         [] eid = 0 /\ gid = 3 -> S("RareData", "RareData", <<u32, f, u16, u16, u16>>, 0)
         [] eid = 0 /\ gid = 7 -> S("Event", "Event", <<u8, u8, u16>>, 0)
         [] eid = 0 /\ gid = 9 -> S("RawDoseRate", "RawData", <<f, u16>>, 0)
         [] eid = 0 /\ gid = 4 -> S("UserData", "nothing", <<u32, f, f, u16, u16>>, 0)
         [] eid = 0 /\ gid = 5 -> S("ScheduleData", "nothing", <<u32, f, f, u16, u16>>, 0)
         [] eid = 0 /\ gid = 6 -> S("AccelData", "nothing", <<u16, u16, u16>>, 0)
         [] eid = 0 /\ gid = 8 -> S("RawCountRate", "nothing", <<f, u16>>, 0)
         [] eid = 1 /\ gid \in 1..3 -> S("Samples", "nothing", <<u16, u32>>, SampleSize(gid))
         [] OTHER -> S("unknown", "nothing", <<>>, 0)

\* decodeDataBuf up to the first test of its loop.
DecodeDataBuf(store, br, base_time_sec) ==
    [decoder |-> "dataBuf", pc |-> "loop", store |-> store, br0 |-> br, br |-> br,
     base_time_sec |-> base_time_sec, ret |-> <<>>, next_seq |-> 0,
     first_packet |-> TRUE, seq |-> 0, gaps |-> 0, n |-> 0,
     input |-> [recs |-> <<>>, seqs |-> <<>>]]

\* decodeDataBuf: the loop test and one pass through the body, for every
\* timestamp the build can compute.  No read's result is looked at; complete
\* records that all the body's reads succeeded.
DataBufRecord(d) ==
    LET seq == ReadTyped(d.br, d.store, "uint", 1)
        eid == ReadTyped(seq.c, d.store, "uint", 1)
        gid == ReadTyped(eid.c, d.store, "uint", 1)
        ts_offset == ReadTyped(gid.c, d.store, "int", 4)
        shape == Shape(eid.value.lo, gid.value.lo)
        RECURSIVE ReadAll(_, _)
        ReadAll(c, types) ==
            IF types = <<>> THEN [values |-> <<>>, c |-> c, ok |-> TRUE]
            ELSE LET r == ReadTyped(c, d.store, Head(types).kind, Head(types).w)
                     rest == ReadAll(r.c, Tail(types))
                 IN [values |-> <<r.value>> \o rest.values, c |-> rest.c,
                     ok |-> r.ok /\ rest.ok]
        body == ReadAll(ts_offset.c, shape.reads)
        v == body.values
        after == IF shape.sample = 0 THEN body.c
                 ELSE [body.c EXCEPT !.position =
                          Min(body.c.position + shape.sample * v[1].lo, body.c.size)]
        Over(x, den) == [num |-> x, den |-> den]
        fields ==
            CASE shape.name = "RealTimeData" ->
                    <<v[1], v[2], Over(v[3].lo, 10), Over(v[4].lo, 10), v[5], v[6]>>
              [] shape.name = "RawData" -> <<v[1], v[2]>>
              [] shape.name = "DoseRateDB" -> <<v[1], v[2], v[3], Over(v[4].lo, 10), v[5]>>
              [] shape.name = "RareData" ->
                    <<v[1], v[2], Over(v[3].lo - 2000, 100), Over(v[4].lo, 100), v[5]>>
              [] shape.name = "Event" -> <<v[1], v[2], v[3]>>
              [] shape.name = "RawDoseRate" -> <<ZeroValue, v[1]>>
              [] OTHER -> <<>>
        gap == ~d.first_packet /\ d.next_seq # seq.value.lo
        heard == [d EXCEPT !.br = ts_offset.c, !.seq = seq.value.lo,
                           !.gaps = IF gap THEN d.gaps + 1 ELSE d.gaps,
                           !.first_packet = FALSE,
                           !.next_seq = Resync(seq.value.lo), !.n = d.n + 1]
        Item(timestamp) == [kind |-> shape.emits, timestamp |-> timestamp,
                            fields |-> fields, complete |-> body.ok]
    IN IF Available(d.br) < 7 THEN {[d EXCEPT !.pc = "done"]}
       ELSE {IF shape.name = "unknown" THEN OnUnknown(heard)
             ELSE IF shape.emits = "nothing" THEN [heard EXCEPT !.br = after]
             ELSE [heard EXCEPT !.br = after, !.ret = Append(d.ret, Item(timestamp))] :
                timestamp \in Timestamps(d.base_time_sec, ts_offset.value)}

\* The bytes of a telemetry stream: each record its sequence number, its
\* pair, its offset in units of 10 ms and its body, less the bytes cut from
\* its end.
RECURSIVE Telemetry(_, _)
Telemetry(recs, seqs) ==
    IF recs = <<>> THEN <<>>
    ELSE LET r == Head(recs)
             whole == <<Head(seqs), r.eid, r.gid>>
                      \o LittleEndian([kind |-> "int", w |-> 4], r.ts) \o r.body
         IN SubSeq(whole, 1, Len(whole) - r.cut) \o Telemetry(Tail(recs), Tail(seqs))

\* The streams handed to the decoder: up to MaxRecords records of the known
\* pairs, of unknown pairs and of records cut short, numbered in order (from
\* 0 or across the wrap) or with gaps.
Streams ==
    LET Rec(eid, gid, ts, n, cut) ==
            [eid |-> eid, gid |-> gid, ts |-> ts, cut |-> cut,
             body |-> IF eid = 1 THEN <<1, 0, 100, 0, 0, 0>> \o [i \in 1..n |-> 200 + i]
                      ELSE [i \in 1..n |-> 16 * gid + i]]
        pool == {Rec(0, 0, 1500, 15, 0), Rec(0, 1, 1500, 8, 0), Rec(0, 2, 1500, 16, 0),
                 Rec(0, 3, 1500, 14, 0), Rec(0, 7, 1500, 4, 0), Rec(0, 9, 1500, 6, 0),
                 Rec(0, 4, 1500, 16, 0), Rec(0, 5, 1500, 16, 0), Rec(0, 6, 1500, 6, 0),
                 Rec(0, 8, 1500, 6, 0), Rec(1, 1, 1500, 8, 0), Rec(1, 2, 1500, 16, 0),
                 Rec(1, 3, 1500, 14, 0),
                 Rec(0, 10, 1500, 8, 0), Rec(2, 1, 1500, 0, 0),
                 Rec(0, 1, 1500, 8, 4), Rec(0, 3, 1500, 14, 6), Rec(0, 0, 1500, 15, 1),
                 Rec(1, 2, 1500, 16, 10), Rec(0, 7, 1500, 4, 4), Rec(0, 1, 1500, 8, 12),
                 Rec(0, 1, -250, 8, 0), Rec(0, 7, 300000000, 4, 0)}
        numberings == {[k \in 1..MaxRecords |-> k - 1],
                       [k \in 1..MaxRecords |-> (254 + k) % 256],
                       [k \in 1..MaxRecords |-> 3 * k]}
    IN {[recs |-> recs, seqs |-> SubSeq(seqs, 1, Len(recs))] :
           recs \in UNION {[1..n -> pool] : n \in 0..MaxRecords}, seqs \in numberings}

\* A decoder leaves these alone.
decUnchanged ==
    <<connection, _seq, req_header, request, pos, rc_pc, bt_pc, elapsedTime,
      _resp_buffer, _resp_received, _resp_size, _response_ready, _shared_buffer,
      response, sent, wire, reply, origin, delivered, xchg, ret, frames, buf, out,
      nwrites, rt, cmd, shared_counts, spectra>>

\* decodeSpectrum is called on a cursor at position over the bytes of s.
SpectrumStart(s, position, format_version) ==
    /\ dec.pc = "idle"
    /\ dec' = [DecodeSpectrum([i \in 1..position |-> 170] \o s.bytes,
                              [size |-> position + Len(s.bytes), position |-> position,
                               capacity |-> position + Len(s.bytes)],
                              format_version)
               EXCEPT !.input = [format |-> s.format, runs |-> s.runs]]
    /\ UNCHANGED decUnchanged

\* The decoder's next step: the test of the loop it is in and one pass
\* through the body.
DecoderStep(d) ==
    CASE d.pc = "v0" -> {CountsV0(d)}
      [] d.pc = "v1" -> {RunHeader(d)}
      [] d.pc = "run" -> {RunEntry(d)}
      [] d.pc = "loop" -> DataBufRecord(d)

DecoderLoop ==
    /\ dec.pc \notin {"idle", "done"}
    /\ dec' \in DecoderStep(dec)
    /\ UNCHANGED decUnchanged

NextSpectrum ==
    \/ /\ dec.pc = "idle"
       /\ \E s \in Spectra, position \in {0, 12}, format_version \in {0, 1, 2} :
             SpectrumStart(s, position, format_version)
    \/ DecoderLoop

SpecSpectrum == Init /\ [][NextSpectrum]_vars

\* decodeDataBuf is called on a cursor at position over the bytes of s.
DataBufStart(s, position, base_time_sec) ==
    /\ dec.pc = "idle"
    /\ LET bytes == [i \in 1..position |-> 170] \o Telemetry(s.recs, s.seqs)
       IN dec' = [DecodeDataBuf(bytes, [size |-> Len(bytes), position |-> position,
                                        capacity |-> Len(bytes)], base_time_sec)
                  EXCEPT !.input = s]
    /\ UNCHANGED decUnchanged

NextDataBuf ==
    \/ /\ dec.pc = "idle"
       /\ \E s \in Streams, position \in {0, 8} :
             DataBufStart(s, position, [lo |-> 1000, hi |-> 0])
    \/ DecoderLoop

\* The decoder is handed bytes a connected session received.
InitDataBuf == Init /\ connection = "up"

SpecDataBuf == InitDataBuf /\ [][NextDataBuf]_vars

\* The states a decoder can return in.
RECURSIVE Decoded(_)
Decoded(d) == IF d.pc = "done" THEN {d} ELSE UNION {Decoded(e) : e \in DecoderStep(d)}

\* The channels a spectrum's bytes describe: the 32-bit words after the
\* header (format 0) or the entries of its runs (format 1).
RECURSIVE Entries(_)
Entries(runs) ==
    IF runs = <<>> THEN <<>>
    ELSE LET run == Head(runs)
         IN [k \in 1..run.cnt |-> [code |-> run.vlen,
                                   val |-> IF run.vlen = 0 THEN 0 ELSE run.vals[k]]]
            \o Entries(Tail(runs))

\* The runs are whole and of the codes 0 to 5.
WholeRuns(input) ==
    /\ input.format = 1
    /\ \A k \in 1..Len(input.runs) : input.runs[k].cut = 0 /\ input.runs[k].vlen \in 0..5

Described(d) ==
    IF d.format_version = 0
    THEN (Len(d.store) - d.br0.position - HeaderSize) \div 4
    ELSE Len(Entries(d.input.runs))

\* C24: in both formats and at every step of decodeSpectrum the count list
\* holds at most MAX_CHANNELS entries, so that no entry is written outside
\* the counts array; input that describes more channels than that is cut to
\* MAX_CHANNELS entries.
Thm_C24_ChannelCap ==
    (dec.pc # "idle" /\ dec.decoder = "spectrum") =>
        /\ Len(dec.spectrum.counts) <= MAX_CHANNELS
        /\ (/\ dec.pc = "done"
            /\ dec.format_version \in {0, 1}
            /\ Available(dec.br0) >= HeaderSize
            /\ dec.format_version = 1 => WholeRuns(dec.input)
            /\ Described(dec) > MAX_CHANNELS)
           => Len(dec.spectrum.counts) = MAX_CHANNELS

Wit_C24_Truncated ==
    /\ dec.pc = "done"
    /\ dec.decoder = "spectrum"
    /\ dec.format_version = 1
    /\ WholeRuns(dec.input)
    /\ Described(dec) > MAX_CHANNELS
    /\ Len(dec.spectrum.counts) = MAX_CHANNELS
    /\ dec.spectrum.counts[MAX_CHANNELS] # ZeroValue

\* The values the entries stand for, from the running value last: code 0 is
\* zero, code 1 the value itself, codes 2 to 5 last plus the delta.
RECURSIVE Running(_, _)
Running(entries, last) ==
    IF entries = <<>> THEN <<>>
    ELSE LET e == Head(entries)
             v == IF e.code <= 1 THEN e.val ELSE last + e.val
         IN <<v>> \o Running(Tail(entries), v)

TheExample == [cnt |-> 3, vlen |-> 2, vals |-> <<5, -2, 10>>, cut |-> 0]

\* C25: format 1 takes the value-length code from the low 4 bits and the
\* entry count from the upper 12 bits of each run header; codes 2 to 5 add
\* a signed delta of 8, 16, 24 or 32 bits to the running value, code 1 sets
\* it to an unsigned byte, code 0 emits zeros, and the running value is
\* carried from entry to entry and from run to run, all in 32 bits.  The
\* header (3 << 4) | 2 with the values 5, -2, 10 decodes to 5, 3, 13.
Thm_C25_DeltaDecoding ==
    (/\ dec.pc = "done"
     /\ dec.decoder = "spectrum"
     /\ dec.format_version = 1
     /\ Available(dec.br0) >= HeaderSize
     /\ WholeRuns(dec.input))
    => LET expected == Running(Entries(dec.input.runs), 0)
           Bits(v) == [lo |-> v % 65536, hi |-> (v \div 65536) % 65536]
       IN /\ dec.spectrum.counts =
                [k \in 1..Min(Len(expected), MAX_CHANNELS) |-> Bits(expected[k])]
          /\ dec.input.runs = <<TheExample>>
             => dec.spectrum.counts = <<[lo |-> 5, hi |-> 0], [lo |-> 3, hi |-> 0],
                                        [lo |-> 13, hi |-> 0]>>

Wit_C25_AcrossRuns ==
    /\ dec.pc = "done"
    /\ dec.decoder = "spectrum"
    /\ dec.format_version = 1
    /\ Len(dec.input.runs) = 2
    /\ dec.input.runs[1].vlen = 4
    /\ dec.input.runs[2] = TheExample
    /\ dec.spectrum.counts = <<[lo |-> 513, hi |-> 65535], [lo |-> 518, hi |-> 65535],
                               [lo |-> 516, hi |-> 65535], [lo |-> 526, hi |-> 65535]>>

\* C26: with fewer than 16 bytes available at the cursor decodeSpectrum
\* returns the cleared spectrum (duration 0, a0 = a1 = a2 = 0, no counts)
\* and consumes nothing; with 16 or more the duration, a0, a1 and a2 are the
\* first 16 bytes at the cursor and the counts come from the bytes after
\* them.
Thm_C26_HeaderOrNothing ==
    (dec.pc # "idle" /\ dec.decoder = "spectrum") =>
        LET p == dec.br0.position
            Field(k) == Halves(SubSeq(dec.store, p + 4 * k + 1, p + 4 * k + 4))
        IN IF Available(dec.br0) < 16
           THEN /\ dec.pc = "done"
                /\ dec.br = dec.br0
                /\ dec.spectrum = [duration_sec |-> ZeroValue, a0 |-> ZeroValue,
                                   a1 |-> ZeroValue, a2 |-> ZeroValue, counts |-> <<>>]
           ELSE /\ dec.spectrum.duration_sec = Field(0)
                /\ dec.spectrum.a0 = Field(1)
                /\ dec.spectrum.a1 = Field(2)
                /\ dec.spectrum.a2 = Field(3)
                /\ dec.br.position >= p + 16
                /\ dec.format_version = 0
                   => /\ dec.br.position = p + 16 + 4 * Len(dec.spectrum.counts)
                      /\ \A k \in 1..Len(dec.spectrum.counts) :
                            dec.spectrum.counts[k] = Field(3 + k)

Wit_C26_ShortHeader ==
    /\ dec.pc = "done"
    /\ dec.decoder = "spectrum"
    /\ Available(dec.br0) = 15
    /\ dec.br0.position = 12
    /\ dec.br = dec.br0
    /\ dec.spectrum.counts = <<>>

\* The pairs whose records are handed to the caller, and those parsed and
\* dropped.
ExposedPairs == {<<0, 0>>, <<0, 1>>, <<0, 2>>, <<0, 3>>, <<0, 7>>, <<0, 9>>}
DiscardedPairs == {<<0, 4>>, <<0, 5>>, <<0, 6>>, <<0, 8>>, <<1, 1>>, <<1, 2>>, <<1, 3>>}

Telemetering == dec.pc # "idle" /\ dec.decoder = "dataBuf"

\* The first n records of the stream are whole and of known pairs, so that
\* the record after them starts where the stream says it does.
Aligned(n) ==
    /\ n <= Len(dec.input.recs)
    /\ \A k \in 1..n :
          /\ dec.input.recs[k].cut = 0
          /\ <<dec.input.recs[k].eid, dec.input.recs[k].gid>>
                \in ExposedPairs \cup DiscardedPairs

\* The lists decodeDataBuf can return for a stream, called as it was called.
Outputs(recs, seqs) ==
    LET bytes == [i \in 1..dec.br0.position |-> 170] \o Telemetry(recs, seqs)
    IN {e.ret : e \in Decoded(DecodeDataBuf(bytes,
                                            [size |-> Len(bytes),
                                             position |-> dec.br0.position,
                                             capacity |-> Len(bytes)],
                                            dec.base_time_sec))}

\* The first record of an unknown pair, 0 if there is none.
FirstUnknown ==
    LET unknown == {k \in 1..Len(dec.input.recs) :
                       <<dec.input.recs[k].eid, dec.input.recs[k].gid>>
                          \notin ExposedPairs \cup DiscardedPairs}
    IN IF unknown = {} THEN 0 ELSE CHOOSE k \in unknown : \A j \in unknown : k <= j

\* C27: a record of an unrecognized (eid, gid) pair halts decodeDataBuf just
\* behind its header, and what is returned is what the stream before that
\* record decodes to, in stream order.
Thm_C27_UnknownHalts ==
    (/\ Telemetering
     /\ dec.pc = "done"
     /\ FirstUnknown > 0
     /\ Aligned(FirstUnknown - 1))
    => LET k == FirstUnknown
           recs == SubSeq(dec.input.recs, 1, k - 1)
           seqs == SubSeq(dec.input.seqs, 1, k - 1)
       IN /\ dec.ret \in Outputs(recs, seqs)
          /\ dec.n = k
          /\ dec.br.position = dec.br0.position + Len(Telemetry(recs, seqs)) + 7

Wit_C27_HaltedWithBytesLeft ==
    /\ Telemetering
    /\ dec.pc = "done"
    /\ FirstUnknown = 2
    /\ Aligned(1)
    /\ Len(dec.ret) = 1
    /\ Available(dec.br) >= 7

\* C28: the sequence numbers of the record headers never change what
\* decodeDataBuf returns: a stream renumbered in any way decodes to the same
\* records (kinds, timestamps and field values), be it numbered in order
\* across the wrap or all alike; and after every header the expected number
\* is the observed one plus 1 modulo 256.
Thm_C28_GapsIgnored ==
    Telemetering =>
        /\ (dec.n > 0 /\ Aligned(dec.n - 1))
           => /\ dec.n <= Len(dec.input.recs)
              /\ dec.seq = dec.input.seqs[dec.n]
              /\ dec.next_seq = (dec.input.seqs[dec.n] + 1) % 256
        /\ (dec.pc = "done" /\ Aligned(Len(dec.input.recs) - 1))
           => LET returned == Outputs(dec.input.recs, dec.input.seqs)
              IN /\ dec.ret \in returned
                 /\ \A step \in {0, 1} :
                       Outputs(dec.input.recs,
                               [k \in 1..Len(dec.input.recs) |-> (253 + step * k) % 256])
                          = returned

Wit_C28_GapPassed ==
    /\ Telemetering
    /\ dec.pc = "done"
    /\ Aligned(2)
    /\ dec.input.seqs = <<3, 6>>
    /\ dec.gaps = 1
    /\ dec.next_seq = 7
    /\ Len(dec.ret) = 2

\* The records of the exposed pairs among recs.
RECURSIVE ExposedOf(_)
ExposedOf(recs) ==
    IF recs = <<>> THEN <<>>
    ELSE IF <<Head(recs).eid, Head(recs).gid>> \in ExposedPairs
         THEN <<Head(recs)>> \o ExposedOf(Tail(recs))
         ELSE ExposedOf(Tail(recs))

\* C29: a whole record of a discarded shape ((0,4), (0,5), (0,6), (0,8) and
\* the sample groups (1,1), (1,2), (1,3) with 8, 16 and 14 bytes a sample
\* behind a u16 count and a u32 time) adds nothing to the output and leaves
\* the cursor just behind its own bytes, so that the exposed records of the
\* stream decode as they do without the discarded ones.
Thm_C29_DiscardedAligned ==
    Telemetering =>
        /\ (/\ dec.n > 0
            /\ Aligned(dec.n)
            /\ <<dec.input.recs[dec.n].eid, dec.input.recs[dec.n].gid>> \in DiscardedPairs)
           => /\ dec.br.position = dec.br0.position
                    + Len(Telemetry(SubSeq(dec.input.recs, 1, dec.n),
                                    SubSeq(dec.input.seqs, 1, dec.n)))
              /\ dec.ret \in Outputs(SubSeq(dec.input.recs, 1, dec.n - 1),
                                     SubSeq(dec.input.seqs, 1, dec.n - 1))
        /\ (dec.pc = "done" /\ Aligned(Len(dec.input.recs)))
           => dec.ret \in Outputs(ExposedOf(dec.input.recs),
                                  [k \in 1..Len(ExposedOf(dec.input.recs)) |-> k - 1])

Wit_C29_ExposedAfterSamples ==
    /\ Telemetering
    /\ dec.pc = "done"
    /\ Aligned(2)
    /\ dec.input.recs[1].eid = 1
    /\ dec.input.recs[1].gid = 3
    /\ Len(dec.ret) = 1
    /\ dec.ret[1].kind = "RareData"
    /\ dec.ret[1].complete

\* C30 as stated: every record decodeDataBuf returns has all of its body
\* fields read from bytes of the input.
Cex_C30_OnlyWholeRecords ==
    Telemetering => \A k \in 1..Len(dec.ret) : dec.ret[k].complete

(***************************************************************************)
(* The wrappers that hand a value back to the caller (specification        *)
(* SpecCalls): deviceStatus, readVSFR, configuration, dataBuf and spectrum *)
(* next to batchReadVSFRs and setAlarmLimits, each call one step.          *)
(***************************************************************************)
CONFIGURATION == 2
DATA_BUF == 256
SPECTRUM == 512

\* The cursors readRequest returns for a response of these bytes.
RequestedString(resp) ==
    LET r == Response(resp)
        rc == ReadUint32(r, resp)
        fl == ReadUint32(rc.c, resp)
    IN IF r.size < 8 \/ ~(rc.ok /\ fl.ok) THEN {EmptyCursor}
       ELSE AfterWorkaround(fl.c, resp, fl.value)

DeviceStatus(resp) ==
    /\ CmdExecute(GET_STATUS, <<>>)
    /\ response' = Response(resp)
    /\ LET flags == ReadUint32(Response(resp), resp)
       IN cmd' = Cmd("deviceStatus", GET_STATUS, <<>>, <<>>, TRUE, resp, flags.c,
                     "read", <<>>, flags.value)
    /\ UNCHANGED cmdUnchanged

ReadVSFR(vsfr_id, resp) ==
    LET msg == LE32(1) \o LE32(vsfr_id)
        valid_flags == ReadUint32(Response(resp), resp)
        raw_value == ReadUint32(valid_flags.c, resp)
        Done(path, c, value) ==
            Cmd("readVSFR", RD_VIRT_SFR_BATCH, vsfr_id, msg, TRUE, resp, c, path,
                <<>>, value)
    IN /\ CmdExecute(RD_VIRT_SFR_BATCH, msg)
       /\ response' = Response(resp)
       /\ IF valid_flags.value # [lo |-> 1, hi |-> 0]
          THEN cmd' = Done("flags", valid_flags.c, ZeroValue)
          ELSE cmd' = Done("value", raw_value.c, raw_value.value)
       /\ UNCHANGED cmdUnchanged

\* String(buffer) holds the bytes before the first zero.
Configuration(resp) ==
    /\ CmdExecute(RD_VIRT_STRING, LE32(CONFIGURATION))
    /\ response' = Response(resp)
    /\ \E r \in RequestedString(resp) :
          LET len == Available(r)
              buffer == SubSeq(resp, r.position + 1, r.position + len) \o <<0>>
              terminator == CHOOSE i \in 1..Len(buffer) :
                                buffer[i] = 0 /\ \A j \in 1..(i - 1) : buffer[j] # 0
          IN cmd' = Cmd("configuration", RD_VIRT_STRING, CONFIGURATION,
                        LE32(CONFIGURATION), TRUE, resp,
                        [r EXCEPT !.position = r.position + len], "read", <<>>,
                        SubSeq(buffer, 1, terminator - 1))
    /\ UNCHANGED cmdUnchanged

DataBuf(_base_time_sec, resp) ==
    /\ CmdExecute(RD_VIRT_STRING, LE32(DATA_BUF))
    /\ response' = Response(resp)
    /\ \E r \in RequestedString(resp) :
          \E e \in Decoded(DecodeDataBuf(resp, r, _base_time_sec)) :
             cmd' = Cmd("dataBuf", RD_VIRT_STRING, DATA_BUF, LE32(DATA_BUF), TRUE, resp,
                        e.br, "decoded", <<>>, e.ret)
    /\ UNCHANGED cmdUnchanged

SPEC_ACCUM == 517

\* memset(counts, 0, sizeof(uint32_t) * n) on the shared array.
ZeroedCounts(shared, n) ==
    [i \in 1..Len(shared) |-> IF i <= n THEN ZeroValue ELSE shared[i]]

\* spectrum() and spectrumAccum(): the function's static result is
\* constructed on the first call (which zeroes the whole shared array) and
\* cleared on every call; a cursor of fewer than 16 bytes in all is not
\* decoded; the decoder writes the counts into the shared array from its
\* start; the caller is handed a copy, whose counts pointer is the shared
\* array again.  returned keeps the counts as they were on return.
SpectrumRequest(op, command_id, _spectrum_format_version, resp) ==
    LET constructed == IF op \in spectra.statics THEN shared_counts
                       ELSE ZeroedCounts(shared_counts, MAX_CHANNELS)
        cleared == ZeroedCounts(constructed, CLEARED_COUNTS)
        Done(path, c, result) ==
            Cmd(op, RD_VIRT_STRING, command_id, LE32(command_id), TRUE, resp, c,
                path, <<>>, result)
        Handed_(result, shared) ==
            /\ shared_counts' = shared
            /\ spectra' = [statics |-> spectra.statics \cup {op},
                           held |-> Append(spectra.held,
                                           [duration_sec |-> result.duration_sec,
                                            a0 |-> result.a0, a1 |-> result.a1,
                                            a2 |-> result.a2,
                                            count_size |-> Len(result.counts),
                                            returned |-> result.counts])]
    IN /\ Len(spectra.held) < MaxSpectra
       /\ CmdExecute(RD_VIRT_STRING, LE32(command_id))
       /\ response' = Response(resp)
       /\ \E r \in RequestedString(resp) :
             IF r.size < 16
             THEN LET result == [duration_sec |-> ZeroValue, a0 |-> ZeroValue,
                                 a1 |-> ZeroValue, a2 |-> ZeroValue, counts |-> <<>>]
                  IN /\ cmd' = Done("short", r, result)
                     /\ Handed_(result, cleared)
             ELSE \E e \in Decoded(DecodeSpectrum(resp, r, _spectrum_format_version)) :
                     /\ cmd' = Done("decoded", e.br, e.spectrum)
                     /\ Handed_(e.spectrum,
                                e.spectrum.counts
                                \o SubSeq(cleared, Len(e.spectrum.counts) + 1,
                                          Len(cleared)))
       /\ UNCHANGED <<connection, pos, rc_pc, bt_pc, elapsedTime, _resp_buffer,
                      _resp_received, _resp_size, _response_ready, _shared_buffer,
                      sent, wire, reply, origin, delivered, ret, buf, out, nwrites,
                      rt, dec>>

Spectrum(_spectrum_format_version, resp) ==
    SpectrumRequest("spectrum", SPECTRUM, _spectrum_format_version, resp)

SpectrumAccum(_spectrum_format_version, resp) ==
    SpectrumRequest("spectrumAccum", SPEC_ACCUM, _spectrum_format_version, resp)

NextCalls ==
    \/ \E resp \in Handback({h \o tail : h \in {ReqHeader(GET_STATUS, _seq)},
                                         tail \in {<<>>, <<3, 0>>, LE32(3)}}) :
          DeviceStatus(resp)
    \/ \E resp \in Handback({h \o tail : h \in {ReqHeader(RD_VIRT_SFR_BATCH, _seq)},
                                         tail \in {LE32(1), LE32(1) \o LE32(77),
                                                   LE32(0) \o LE32(77)}}) :
          ReadVSFR(TEMP_degC, resp)
    \/ \E resp \in Handback({h \o LE32(1) \o LE32(Len(text)) \o text :
                                h \in {ReqHeader(RD_VIRT_STRING, _seq)},
                                text \in {<<>>, <<65, 66>>, <<65, 0, 66>>}}) :
          Configuration(resp)
    \/ \E resp \in Handback({h \o LE32(1) \o LE32(Len(data)) \o data :
                                h \in {ReqHeader(RD_VIRT_STRING, _seq)},
                                data \in {<<0, 0, 1, 220, 5, 0, 0, 1, 2, 3, 4, 5, 6, 7, 8>>,
                                          <<0, 0, 1, 220, 5, 0, 0, 1, 2, 3, 4>>}}) :
          DataBuf([lo |-> 1000, hi |-> 0], resp)
    \/ \E resp \in Handback({h \o LE32(1) \o LE32(Len(data)) \o data :
                                h \in {ReqHeader(RD_VIRT_STRING, _seq)},
                                data \in {<<60, 0, 0, 0, 0, 0, 0, 63, 0, 0, 128, 63,
                                            0, 0, 0, 64, 50, 0, 5, 254, 10>>,
                                          <<60, 0, 0, 0, 0, 0>>, <<60, 0, 0>>}}) :
          \E format_version \in {0, 1} : Spectrum(format_version, resp)
    \/ \E resp \in Handback(BatchReplies(ReqHeader(RD_VIRT_SFR_BATCH, _seq), 1)) :
          BatchReadVSFRs(<<TEMP_degC>>, resp)
    \/ \E limits \in {<<-1, -1, -1, -1, -1, -1>>, <<30, -1, -1, -1, -1, -1>>} :
          \E resp \in Handback(WriteReplies(ReqHeader(WR_VIRT_SFR_BATCH, _seq),
                                            Len(WhichLimits(limits)))) :
             SetAlarmLimits(limits, TRUE, FALSE, resp)

SpecCalls == Init /\ [][NextCalls]_vars

Cex_C31_TimestampExact ==
    (/\ Telemetering
     /\ dec.n > 0
     /\ Aligned(dec.n)
     /\ dec.ret # <<>>
     /\ <<dec.input.recs[dec.n].eid, dec.input.recs[dec.n].gid>> \in ExposedPairs)
    => dec.ret[Len(dec.ret)].timestamp
          = Add32(dec.base_time_sec,
                  Pattern([kind |-> "int", w |-> 4], Quot(dec.input.recs[dec.n].ts, 100)))

(***************************************************************************)
(* Spectrum objects and the array they share (specification SpecShared):   *)
(* spectrum(), spectrumAccum() and what the caller does with Spectrum      *)
(* objects of its own.                                                     *)
(***************************************************************************)
\* The caller constructs a Spectrum (the whole shared array is zeroed),
\* clears the k-th one it holds (the first 16 counts are zeroed) or copies
\* it (the shared array is copied onto itself).
SpectrumObject(how, k) ==
    /\ CASE how = "constructed" ->
              /\ shared_counts' = ZeroedCounts(shared_counts, MAX_CHANNELS)
              /\ UNCHANGED spectra
         [] how = "cleared" ->
              /\ k \in 1..Len(spectra.held)
              /\ shared_counts' = ZeroedCounts(shared_counts, CLEARED_COUNTS)
              /\ spectra' = [spectra EXCEPT !.held[k] =
                                [duration_sec |-> ZeroValue, a0 |-> ZeroValue,
                                 a1 |-> ZeroValue, a2 |-> ZeroValue, count_size |-> 0,
                                 returned |-> <<>>]]
         [] how = "copied" ->
              /\ k \in 1..Len(spectra.held)
              /\ Len(spectra.held) < MaxSpectra
              /\ spectra' = [spectra EXCEPT !.held = Append(spectra.held, spectra.held[k])]
              /\ UNCHANGED shared_counts
    /\ UNCHANGED <<connection, _seq, req_header, request, pos, rc_pc, bt_pc,
                   elapsedTime, _resp_buffer, _resp_received, _resp_size,
                   _response_ready, _shared_buffer, response, sent, wire, reply,
                   origin, delivered, xchg, ret, frames, buf, out, nwrites, rt, cmd,
                   dec>>

NextShared ==
    \/ \E resp \in Handback({h \o LE32(1) \o LE32(Len(data)) \o data :
                                h \in {ReqHeader(RD_VIRT_STRING, _seq)},
                                data \in {<<60, 0, 0, 0, 0, 0, 0, 63, 0, 0, 128, 63,
                                            0, 0, 0, 64, 50, 0, 5, 254, 10>>,
                                          <<30, 0, 0, 0, 0, 0, 0, 63, 0, 0, 128, 63,
                                            0, 0, 0, 64, 33, 0, 200, 201>>}}) :
          Spectrum(1, resp)
    \/ \E resp \in Handback({h \o LE32(1) \o LE32(Len(data)) \o data :
                                h \in {ReqHeader(RD_VIRT_STRING, _seq)},
                                data \in {<<90, 0, 0, 0, 0, 0, 0, 63, 0, 0, 128, 63,
                                            0, 0, 0, 64, 65, 0, 7, 8, 9, 6>>}}) :
          SpectrumAccum(1, resp)
    \/ \E how \in {"constructed", "cleared", "copied"}, k \in 1..MaxSpectra :
          SpectrumObject(how, k)

SpecShared == Init /\ [][NextShared]_vars

\* What the caller reads through the k-th Spectrum it holds.
Seen(k) == SubSeq(shared_counts, 1, spectra.held[k].count_size)

\* C32 as stated: the counts of a Spectrum handed to the caller stay as they
\* were returned, whatever is done with other Spectrum objects afterwards.
Cex_C32_CountsKept ==
    \A k \in 1..Len(spectra.held) : Seen(k) = spectra.held[k].returned

(***************************************************************************)
(* RadiaCode::setLightOn: readVSFR(DEVICE_CTRL), then writeRequest.        *)
(***************************************************************************)
DEVICE_CTRL == 1280
LIGHT == 8

\* setLightOn(on) with the reading answered by read and the write by ack.
SetLightOn(on, read, ack) ==
    LET msg == LE32(1) \o LE32(DEVICE_CTRL)
        valid_flags == ReadUint32(Response(read), read)
        raw_value == ReadUint32(valid_flags.c, read)
        current == IF valid_flags.value # [lo |-> 1, hi |-> 0] THEN ZeroValue
                   ELSE raw_value.value
        deviceCtrl ==
            [current EXCEPT !.lo = IF on THEN (IF HasBit(@, LIGHT) THEN @ ELSE @ + LIGHT)
                                   ELSE (IF HasBit(@, LIGHT) THEN @ - LIGHT ELSE @)]
        cmd_data == LE32(DEVICE_CTRL) \o StoredBytes(deviceCtrl, 4)
        retcode == ReadUint32(Response(ack), ack)
    IN /\ xchg < MaxCalls
       /\ xchg' = xchg + 1
       /\ IF connection = "none"
          THEN UNCHANGED <<_seq, req_header, request, frames>>
          ELSE /\ req_header' = ReqHeader(WR_VIRT_SFR, NextSeq(_seq))
               /\ _seq' = NextSeq(NextSeq(_seq))
               /\ request' = FullRequest(WR_VIRT_SFR, NextSeq(_seq), cmd_data)
               /\ frames' = frames + 2
       /\ response' = Response(ack)
       /\ cmd' = Cmd("setLightOn", WR_VIRT_SFR, on, cmd_data, TRUE, ack, retcode.c,
                     IF valid_flags.value # [lo |-> 1, hi |-> 0] THEN "flags" ELSE "value",
                     <<read>>, deviceCtrl)
       /\ UNCHANGED cmdUnchanged

\* The readings: the flags 1 and a value, other flags, a value cut short, no
\* value, the header alone, nothing.
NextLight ==
    \E on \in BOOLEAN :
       \E read \in Handback(
                 LET h == ReqHeader(RD_VIRT_SFR_BATCH, _seq)
                 IN {h \o LE32(flags) \o value : flags \in {1, 0, 3},
                        value \in {LE32(0), LE32(LIGHT), LE32(247), <<255, 255, 255, 255>>,
                                   <<120, 86, 52, 18>>, <<LIGHT, 0>>, <<>>}}
                    \cup {h}),
          ack \in Handback(WriteAcks(ReqHeader(WR_VIRT_SFR, NextSeq(_seq)))) :
          SetLightOn(on, read, ack)

SpecLight == Init /\ [][NextLight]_vars

\* C39: setLightOn writes the device's DEVICE_CTRL value with only the LIGHT
\* bit changed, and when that value could not be read no write follows the
\* reading: the session sends the one frame of the reading.
Cex_C39_ReadModifyWrite ==
    (cmd.op # "none" /\ cmd.op = "setLightOn") =>
        LET read == cmd.values[1]
            wasRead == Len(read) >= 12 /\ Halves(SubSeq(read, 5, 8)) = [lo |-> 1, hi |-> 0]
            current == Halves(SubSeq(read, 9, 12))
            written == Halves(SubSeq(cmd.payload, 5, 8))
        IN IF wasRead
           THEN /\ cmd.sent
                /\ written.hi = current.hi
                /\ HasBit(written.lo, LIGHT) = cmd.args
                /\ \A bit \in {2^k : k \in 0..15} \ {LIGHT} :
                      HasBit(written.lo, bit) = HasBit(current.lo, bit)
           ELSE connection = "up" => frames = cmd.frames0 + 1

\* C36: batchReadVSFRs returns values only when the reply holds a raw 32-bit
\* value for every register asked for after the validity bitmask.
Cex_C36_ValuesFromReply ==
    (cmd.op # "none" /\ cmd.op = "batchReadVSFRs" /\ cmd.values # <<>>) =>
        Len(cmd.resp) >= 8 + 4 * Len(cmd.args)

\* C37: in format 1 a run header with a value-length code outside 0 to 5
\* ends decoding: the counts are those of the whole runs before it, and
\* nothing is appended from the bytes after it.
Cex_C37_UnsupportedEnds ==
    (/\ dec.pc = "done"
     /\ dec.decoder = "spectrum"
     /\ dec.format_version = 1
     /\ dec.input.format = 1
     /\ Available(dec.br0) >= HeaderSize)
    => \A k \in 1..Len(dec.input.runs) :
          (/\ dec.input.runs[k].vlen \notin 0..5
           /\ \A j \in 1..(k - 1) : dec.input.runs[j].vlen \in 0..5
                                      /\ dec.input.runs[j].cut = 0)
          => LET expected == Running(Entries(SubSeq(dec.input.runs, 1, k - 1)), 0)
                 Bits(v) == [lo |-> v % 65536, hi |-> (v \div 65536) % 65536]
             IN dec.spectrum.counts =
                   [i \in 1..Min(Len(expected), MAX_CHANNELS) |-> Bits(expected[i])]

(***************************************************************************)
(* Both decoders in one specification.                                     *)
(***************************************************************************)
NextDecoders ==
    \/ /\ dec.pc = "idle"
       /\ \E s \in Spectra, format_version \in {0, 1} :
             SpectrumStart(s, 0, format_version)
    \/ /\ dec.pc = "idle"
       /\ \E s \in Streams : DataBufStart(s, 0, [lo |-> 1000, hi |-> 0])
    \/ DecoderLoop

SpecDecoders == InitDataBuf /\ [][NextDecoders]_vars

\* C38 as stated: every iteration of a decoder's loops strictly advances the
\* cursor or leaves its loop.
Cex_C38_AdvanceOrExit ==
    [][dec.pc \notin {"idle", "done"}
       => (dec'.br.position > dec.br.position \/ dec'.pc # dec.pc)]_vars

\* What a decoder in state d has left to do: the bytes before it, counted
\* twice, the room in the count list, and the inner loop it has to leave.
Measure(d) ==
    2 * (d.br.size - d.br.position)
    + (IF d.decoder = "spectrum" THEN MAX_CHANNELS - Len(d.spectrum.counts) ELSE 0)
    + (IF d.pc = "run" THEN 1 ELSE 0)

\* C38: both decoders terminate on every input.  Every iteration of the
\* loops of decodeDataBuf and decodeCountsV0 and of the outer loop of
\* decodeCountsV1 strictly advances the cursor or leaves its loop; an
\* iteration of the inner loop of decodeCountsV1 does so as well or, under
\* value-length code 0, appends a count to a list that never grows beyond
\* MAX_CHANNELS.  The cursor never passes the end of the bytes, a step is
\* always possible until the decoder returns, and every step that does not
\* return lowers the measure, a natural number: decoding finishes after at
\* most 2 * size + MAX_CHANNELS + 1 iterations whatever the bytes are.
Thm_C38_DecodersTerminate ==
    /\ [](dec.pc \notin {"idle", "done"}
          => /\ dec.br.position <= dec.br.size
             /\ Measure(dec) >= 0
             /\ DecoderStep(dec) # {})
    /\ [][dec.pc \notin {"idle", "done"}
          => /\ \/ dec'.br.position > dec.br.position
                \/ dec'.pc # dec.pc
                \/ /\ dec.pc = "run"
                   /\ dec.vlen = 0
                   /\ Len(dec'.spectrum.counts) = Len(dec.spectrum.counts) + 1
                   /\ Len(dec'.spectrum.counts) <= MAX_CHANNELS
             /\ dec'.pc = "done" \/ Measure(dec') < Measure(dec)]_vars

Wit_C38_ZerosWithoutBytes ==
    /\ dec.pc = "done"
    /\ dec.decoder = "spectrum"
    /\ dec.format_version = 1
    /\ dec.vlen = 0
    /\ Len(dec.spectrum.counts) = MAX_CHANNELS
    /\ dec.br.position = dec.br0.position + HeaderSize + 2

(***************************************************************************)
(* From BluetoothTransport::execute to the wrapper: the BytesBuffer        *)
(* objects made on the way, every one of them over the one static buffer.  *)
(***************************************************************************)
GET_VERSION == 10
GET_SERIAL == 11

\* A copy that starts again at the beginning.
CopyOf_Rewound(other) ==
    [size |-> other.size, position |-> 0, capacity |-> MAX_BUFFER_SIZE]

\* BytesBuffer(const BytesBuffer&) and operator=: the fields of the new object.
CopyOf(other) ==
    [size |-> other.size, position |-> other.position, capacity |-> MAX_BUFFER_SIZE]

\* A copy that clears the start of the buffer as the other constructors do.
CopyData_Cleared(shared, other) == ClearPrefix(shared)

\* BytesBuffer(const BytesBuffer&) and operator=: the shared buffer afterwards,
\* memcpy(_fixed_data, other._fixed_data, _size) with both pointers at its start.
CopyData(shared, other) ==
    IF other.size > 0
    THEN Memcpy(shared, 0, SubSeq(shared, 1, other.size), other.size)
    ELSE shared

\* The wrappers that read a reply: the command and message each hands to
\* RadiaCode::execute, whether its cursor is declared before the call and
\* assigned from it, and the width of the first field it reads.
Wrappers ==
    {[name |-> "deviceStatus", opcode |-> GET_STATUS, args |-> <<>>,
      declared |-> TRUE, w |-> 4],
     [name |-> "fwVersion", opcode |-> GET_VERSION, args |-> <<>>,
      declared |-> TRUE, w |-> 2],
     [name |-> "hwSerialNumber", opcode |-> GET_SERIAL, args |-> <<>>,
      declared |-> FALSE, w |-> 4],
     [name |-> "readRequest", opcode |-> RD_VIRT_STRING, args |-> LE32(TEXT_MESSAGE),
      declared |-> FALSE, w |-> 4],
     [name |-> "readVSFR", opcode |-> RD_VIRT_SFR_BATCH,
      args |-> LE32(1) \o LE32(DEVICE_CTRL), declared |-> FALSE, w |-> 4],
     [name |-> "batchReadVSFRs", opcode |-> RD_VIRT_SFR_BATCH,
      args |-> LE32(1) \o LE32(TEMP_degC), declared |-> FALSE, w |-> 4],
     [name |-> "writeRequest", opcode |-> WR_VIRT_SFR,
      args |-> LE32(DISP_BRT) \o LE32(5), declared |-> FALSE, w |-> 4],
     [name |-> "setAlarmLimits", opcode |-> WR_VIRT_SFR_BATCH,
      args |-> LE32(1) \o LE32(DR_LEV1_uR_h) \o LE32(100), declared |-> FALSE, w |-> 4]}

\* The loop of hwSerialNumber, n groups from cursor c: for each group whether
\* readUint32 read it and the value formatted.
RECURSIVE SerialGroups(_, _, _)
SerialGroups(c, store, n) ==
    IF n = 0 THEN <<>>
    ELSE LET group == ReadUint32(c, store)
         IN <<[read |-> group.ok, value |-> group.value]>>
               \o SerialGroups(group.c, store, n - 1)

\* One exchange as the wrapper sees it, data being the dataSize bytes at
\* _resp_buffer + 4: the wrapper's own cursor where it is declared first, the
\* transport's response object, the temporary assigned to it, the returns by
\* value through BluetoothTransport::execute and RadiaCode::execute with the
\* header read in between, the first field, and for readRequest and
\* hwSerialNumber what they do with the rest.
Exchange(call, data) ==
    LET ByValue(x) == [c |-> CopyOf(x.c), shared |-> CopyData(x.shared, x.c)]
        entry == ClearPrefix(IF call.declared THEN ClearPrefix(_shared_buffer)
                             ELSE _shared_buffer)
        temporary == [c |-> CursorOf(Len(data)),
                      shared |-> CtorCopy(entry, data, Len(data))]
        handed == ByValue(ByValue(temporary))
        stripped == [c |-> AfterHeader(handed.c), shared |-> handed.shared]
        back == ByValue(stripped)
        r == IF call.declared THEN ByValue(back) ELSE back
        short == call.name = "readRequest" /\ r.c.size < 8
        first == IF short THEN [ok |-> FALSE, value |-> ZeroValue, c |-> r.c]
                 ELSE ReadTyped(r.c, r.shared, "uint", call.w)
        flen == ReadUint32(first.c, r.shared)
        refused == call.name = "readRequest" /\ (short \/ ~(first.ok /\ flen.ok))
        serial_len == first.value
        groups == IF call.name = "hwSerialNumber" /\ serial_len.lo % 4 = 0
                  THEN SerialGroups(first.c, r.shared, serial_len.lo \div 4)
                  ELSE <<>>
        Done(held) == [op |-> call.name, resp |-> data, w |-> call.w, r |-> r.c,
                       first |-> first, held |-> held, groups |-> groups]
    IN /\ CmdExecute(call.opcode, call.args)
       /\ response' = r.c
       /\ _shared_buffer' = IF refused THEN ClearPrefix(r.shared) ELSE r.shared
       /\ IF refused THEN cmd' = Done(EmptyCursor)
          ELSE IF call.name = "readRequest"
          THEN \E c \in AfterWorkaround(flen.c, r.shared, flen.value) : cmd' = Done(c)
          ELSE cmd' = Done(r.c)
       /\ UNCHANGED <<connection, pos, rc_pc, bt_pc, elapsedTime, _resp_buffer,
                      _resp_received, _resp_size, _response_ready, sent, wire, reply,
                      origin, delivered, ret, buf, out, nwrites, rt, dec,
                      shared_counts, spectra>>

\* The replies: the echoed header, a first word and more bytes, cut at every
\* second length up to the buffer's size.
NextHandoff ==
    \E call \in Wrappers :
       \E word \in {LE32(0), LE32(4), LE32(8), <<17, 34, 51, 68>>},
          n \in {0, 2, 4, 6, 8, MAX_BUFFER_SIZE} :
          \E data \in Handback({SubSeq(ReqHeader(call.opcode, _seq) \o word
                                          \o Payload(MAX_BUFFER_SIZE), 1, n)}) :
             Exchange(call, data)

SpecHandoff == Init /\ [][NextHandoff]_vars

\* C33: exactly one echoed header is skipped per exchange: the cursor a
\* wrapper receives spans the whole response and stands at byte offset 4, or
\* at the size for a response shorter than 4 bytes, and the first field the
\* wrapper reads is made of the bytes at offset 4 of the response.
Thm_C33_HeaderSkippedOnce ==
    cmd.op # "none" =>
        /\ cmd.r.size = Len(cmd.resp)
        /\ cmd.r.position = Min(4, Len(cmd.resp))
        /\ cmd.first.ok =>
              /\ cmd.first.c.position = 4 + cmd.w
              /\ cmd.first.value =
                    IF cmd.w = 4 THEN Halves(SubSeq(cmd.resp, 5, 8))
                    ELSE [lo |-> cmd.resp[5] + 256 * cmd.resp[6], hi |-> 0]

Wit_C33_StatusAtOffsetFour ==
    /\ cmd.op = "deviceStatus"
    /\ Len(cmd.resp) = 8
    /\ cmd.first.ok
    /\ cmd.first.value = [lo |-> 17 + 34 * 256, hi |-> 51 + 68 * 256]

\* C34: the bytes readable through the cursor a wrapper finally holds are the
\* bytes the transport received after the length prefix, and all of them
\* unless readRequest dropped a trailing zero or returned an empty cursor.
Thm_C34_LiveResponseIntact ==
    cmd.op # "none" =>
        /\ SubSeq(_shared_buffer, 1, cmd.held.size) = SubSeq(cmd.resp, 1, cmd.held.size)
        /\ cmd.op # "readRequest" => cmd.held.size = Len(cmd.resp)

Wit_C34_SecondFullResponse ==
    /\ xchg = 2
    /\ cmd.op = "fwVersion"
    /\ Len(cmd.resp) = MAX_BUFFER_SIZE
    /\ cmd.held.size = MAX_BUFFER_SIZE
    /\ cmd.resp[1] # 0

\* C40: hwSerialNumber returns no more groups than the reply holds 4-byte
\* words after the length field.
Cex_C40_GroupsFromBytes ==
    (cmd.op # "none" /\ cmd.op = "hwSerialNumber") =>
        Len(cmd.groups) <= (IF Len(cmd.resp) > 8 THEN Len(cmd.resp) - 8 ELSE 0) \div 4

TypeOK ==
    /\ _seq \in 0..31
    /\ _resp_received \in 0..MAX_RESP_SIZE
    /\ _resp_size \in 0..MAX_RESP_SIZE

====
